---- MODULE Spec2Model ----
(***************************************************************************)
(* Model of the incremental bulk-ingestion pipeline of lubeai:             *)
(*   apps/reports/services/bulk_upload.py  (ReportBulkUploadService)       *)
(*   apps/etl/tasks.py                     (celery tasks)                  *)
(*   apps/etl/utils.py                     (client factory, date parser)   *)
(*   apps/etl/services/intertek_client.py  (IntertekAPIClient)             *)
(***************************************************************************)
EXTENDS Integers, Sequences, FiniteSets, TLC

(***************************************************************************)
(* Bounds of the model.                                                    *)
(***************************************************************************)
\* number of ingestion runs in one behaviour
MaxRuns == 2
\* longest spreadsheet (number of rows below the title row) fed to one run
MaxRows == 2
\* latest instant of the model clock, in seconds
MaxTime == 600
\* number of logins the portal answers with a fresh token
MaxTokens == 2

(***************************************************************************)
(* Python values.  None is Python's None (a null cell in polars).          *)
(***************************************************************************)
None == "<None>"

\* Python truthiness of a string-or-None value: `not value`
Falsy(v) == v = None \/ v = ""

\* str.lower() / the case folding of an __iexact lookup, over the names the
\* model uses
Lower(s) ==
    CASE s = "ACME" -> "acme"
      [] s = "Acme" -> "acme"
      [] s = "PUMP" -> "pump"
      [] s = "Pump" -> "pump"
      [] s = "TWIN" -> "twin"
      [] s = "Twin" -> "twin"
      [] s = "S1" -> "s1"
      [] s = "S2" -> "s2"
      [] s = "MOTOR" -> "motor"
      [] s = "Motor" -> "motor"
      [] s = "DUO" -> "duo"
      [] s = "Duo" -> "duo"
      [] s = "TRANSPORTES SUR" -> "transportes sur"
      [] s = "Transportes Sur" -> "transportes sur"
      [] s = "T1" -> "t1"
      [] OTHER -> s

(***************************************************************************)
(* Date cells.  A cell of a date column is a record                        *)
(*   [k, a, b, c]:  k = "none"  null cell                                  *)
(*                  k = "empty" the empty string                           *)
(*                  k = "text"  text that is no date                       *)
(*                  k = "slash" the string  a/b/c                          *)
(*                  k = "dash"  the string  a-b-c                          *)
(* A parsed date is the integer y*10000 + m*100 + d, which orders dates    *)
(* as datetime.date does; NoDate stands for None.                          *)
(***************************************************************************)
NoDate == 0

DCell(k, a, b, c) == [k |-> k, a |-> a, b |-> b, c |-> c]
DNone == DCell("none", 0, 0, 0)

MkDate(y, m, d) == y * 10000 + m * 100 + d

IsLeap(y) == (y % 4 = 0 /\ y % 100 # 0) \/ y % 400 = 0

DaysIn(y, m) ==
    IF m \in {4, 6, 9, 11} THEN 30
    ELSE IF m = 2 THEN (IF IsLeap(y) THEN 29 ELSE 28)
    ELSE 31

\* %Y matches exactly four digits; %d and %m match one or two digits
FourDigits(n) == n \in 1000..9999
TwoDigits(n) == n \in 0..99

ValidYMD(y, m, d) ==
    /\ FourDigits(y)
    /\ TwoDigits(m) /\ m \in 1..12
    /\ TwoDigits(d) /\ d \in 1..DaysIn(y, m)

\* datetime.strptime(date_str, fmt).date(), NoDate when it raises ValueError
Strptime(cell, fmt) ==
    CASE fmt = "%d/%m/%Y" ->
           IF cell.k = "slash" /\ ValidYMD(cell.c, cell.b, cell.a)
           THEN MkDate(cell.c, cell.b, cell.a) ELSE NoDate
      [] fmt = "%d-%m-%Y" ->
           IF cell.k = "dash" /\ ValidYMD(cell.c, cell.b, cell.a)
           THEN MkDate(cell.c, cell.b, cell.a) ELSE NoDate
      [] fmt = "%Y-%m-%d" ->
           IF cell.k = "dash" /\ ValidYMD(cell.a, cell.b, cell.c)
           THEN MkDate(cell.a, cell.b, cell.c) ELSE NoDate
      [] fmt = "%m/%d/%Y" ->
           IF cell.k = "slash" /\ ValidYMD(cell.c, cell.a, cell.b)
           THEN MkDate(cell.c, cell.a, cell.b) ELSE NoDate

\* the formats with the US format tried first
date_formats_us_first == << "%m/%d/%Y", "%d/%m/%Y", "%d-%m-%Y", "%Y-%m-%d" >>

date_formats == << "%d/%m/%Y", "%d-%m-%Y", "%Y-%m-%d", "%m/%d/%Y" >>

\* the for loop over date_formats: the first format that parses wins
RECURSIVE TryFormats(_, _)
TryFormats(cell, i) ==
    IF i > Len(date_formats) THEN NoDate
    ELSE IF Strptime(cell, date_formats[i]) # NoDate
         THEN Strptime(cell, date_formats[i])
         ELSE TryFormats(cell, i + 1)

\* django.utils.dateparse.parse_date on a string no format accepted: the
\* string matches \d{4}-\d{1,2}-\d{1,2} but is no calendar date, so
\* datetime.date(...) raises ValueError; every other string gives None
DjangoParseDateRaises(cell) ==
    /\ cell.k = "dash"
    /\ FourDigits(cell.a) /\ TwoDigits(cell.b) /\ TwoDigits(cell.c)
    /\ ~ValidYMD(cell.a, cell.b, cell.c)

\* apps.etl.utils.parse_polars_date
parse_polars_date(cell) ==
    IF cell.k \in {"none", "empty"} THEN NoDate
    ELSE TryFormats(cell, 1)

\* ReportBulkUploadService._parse_date: the value, and whether it raises
ParseDateRaises(cell) ==
    /\ cell.k \notin {"none", "empty"}
    /\ TryFormats(cell, 1) = NoDate
    /\ DjangoParseDateRaises(cell)

ParseDate(cell) ==
    IF cell.k \in {"none", "empty"} THEN NoDate
    ELSE TryFormats(cell, 1)

\* date(y, m, d).strftime(fmt): the string the format writes, as a cell
strftime(y, m, d, fmt) ==
    CASE fmt = "%d/%m/%Y" -> DCell("slash", d, m, y)
      [] fmt = "%d-%m-%Y" -> DCell("dash", d, m, y)
      [] fmt = "%Y-%m-%d" -> DCell("dash", y, m, d)
      [] fmt = "%m/%d/%Y" -> DCell("slash", m, d, y)

(***************************************************************************)
(* The condition column.                                                   *)
(***************************************************************************)
\* str(condition_value).strip().lower(), over the texts the model uses
StripLower(s) ==
    CASE s = "Normal" -> "normal"
      [] s = "NORMAL" -> "normal"
      [] s = "Caution" -> "caution"
      [] s = "Precaution" -> "precaution"
      [] s = "PRECAUCION" -> "precaucion"
      [] s = "Precaución" -> "precaución"
      [] s = "PRECAUCIÓN" -> "precaución"
      [] s = "Critical" -> "critical"
      [] s = "CRITICO" -> "critico"
      [] s = "Crítico" -> "crítico"
      [] s = " Alerta " -> "alerta"
      [] s = "Severe" -> "severe"
      [] s = "Bueno" -> "bueno"
      [] OTHER -> s

\* the dictionary condition_mapping
condition_mapping ==
    [k \in {"normal"} |-> "NORMAL"] @@
    [k \in {"caution", "precaution", "precaucion"} |-> "CAUTION"] @@
    [k \in {"critical", "critico", "alerta"} |-> "CRITICAL"]

\* ReportBulkUploadService._parse_condition
parse_condition(condition_value) ==
    IF Falsy(condition_value) THEN "NORMAL"
    ELSE IF StripLower(condition_value) \in DOMAIN condition_mapping
         THEN condition_mapping[StripLower(condition_value)]
         ELSE "NORMAL"

(***************************************************************************)
(* Number cells.  A cell of a numeric column is a record                   *)
(*   [k, n, unit, comma]:                                                  *)
(*     k = "none"   null cell            k = "empty"  the empty string     *)
(*     k = "dash"   the placeholder "-"  k = "text"   text, no number      *)
(*     k = "num"    a native number of n tenths                            *)
(*     k = "str"    a string: the decimal numeral of n tenths, written     *)
(*                  with thousands commas when comma, followed by unit     *)
(* Numbers are counted in tenths (125 is 12.5); NoNum stands for None.     *)
(***************************************************************************)
NoNum == -1000000

NCell(k, n, unit, comma) == [k |-> k, n |-> n, unit |-> unit, comma |-> comma]
NNone == NCell("none", 0, "", FALSE)

\* `not value or value == "-"` on a number cell
NumFalsy(cell) ==
    \/ cell.k \in {"none", "empty", "dash"}
    \/ cell.k = "num" /\ cell.n = 0

\* int(x): truncation toward zero of a number of tenths
IntOf(n) == IF n >= 0 THEN n \div 10 ELSE -((-n) \div 10)

\* the unit words _parse_integer removes after lower()
RemovedUnit(unit) == unit \in {"", "horas", "Horas", "HORAS", "km", "Km", "KM"}

\* ReportBulkUploadService._parse_integer
parse_integer(cell) ==
    IF NumFalsy(cell) THEN 0
    ELSE IF cell.k = "num" THEN IntOf(cell.n)
    ELSE IF cell.k = "str" /\ RemovedUnit(cell.unit) THEN IntOf(cell.n)
    ELSE 0

\* ReportBulkUploadService._parse_decimal, in tenths
parse_decimal(cell) ==
    IF NumFalsy(cell) THEN NoNum
    ELSE IF cell.k = "num" THEN cell.n
    ELSE IF cell.k = "str" /\ cell.unit = "" THEN cell.n
    ELSE NoNum

\* "TRANSPORTES" in str(machine_name).upper(), over the names the model uses
ContainsTransportes(name) ==
    name \in {"TRANSPORTES SUR", "Transportes Sur", "transportes sur"}

\* a parser that counts every machine in hours
parse_hours_kms_hours(cell, is_transport) == << parse_integer(cell), 0 >>

\* ReportBulkUploadService._parse_hours_kms: <<hours, kms>>
parse_hours_kms(cell, is_transport) ==
    IF is_transport THEN << 0, parse_integer(cell) >>
    ELSE << parse_integer(cell), 0 >>

(***************************************************************************)
(* Source rows.  A row of the spreadsheet keeps the cells the pipeline     *)
(* branches on: N° (column 0), No. Lab (1), Cliente (2), Equipo (3),       *)
(* Componente (4), Cod/Num Serie (5), Fecha Muestra (7), Equipo Horas/Kms  *)
(* (8), Lubricante Horas/Kms (9) and, of the 39 laboratory columns, one of *)
(* each parsing branch: Apariencia (56, text), TBN (23, decimal) and       *)
(* Hierro (34, integer).                                                   *)
(***************************************************************************)
Row(c0, lab, org, machine, serial, comp, sdate, mhk, lhk, tbn, iron, visual) ==
    [c0 |-> c0, lab |-> lab, org |-> org, machine |-> machine,
     serial |-> serial, comp |-> comp, sdate |-> sdate, mhk |-> mhk,
     lhk |-> lhk, tbn |-> tbn, iron |-> iron, visual |-> visual]

\* ReportBulkUploadService._extract_lab_analysis_data
extract_lab_analysis_data(row) ==
    [visual_appearance |-> IF Falsy(row.visual) THEN "" ELSE row.visual,
     tbn |-> parse_decimal(row.tbn),
     iron_fe |-> parse_integer(row.iron)]

\* ReportBulkUploadService._extract_row_data raises when _parse_date does
ExtractRaises(row) == ParseDateRaises(row.sdate)

\* ReportBulkUploadService._extract_row_data: the report_data mapping
extract_report_data(row) ==
    LET is_transport ==
            IF Falsy(row.machine) THEN FALSE
            ELSE ContainsTransportes(row.machine)
        m == parse_hours_kms(row.mhk, is_transport)
        l == parse_hours_kms(row.lhk, is_transport)
    IN  [lab_number |-> row.lab,
         organization_name |-> row.org,
         machine_name |-> row.machine,
         component_name |-> row.comp,
         serial_number_code |-> row.serial,
         sample_date |-> ParseDate(row.sdate),
         machine_hours |-> m[1], machine_kms |-> m[2],
         lubricant_hours |-> l[1], lubricant_kms |-> l[2]]

(***************************************************************************)
(* Reference entities (read by the pipeline, never written by it).         *)
(*   Organization [id, name, is_active]                                    *)
(*   Machine      [id, organization, name, serial_number, is_active]       *)
(*   Component    [id, machine, type_name, is_active]                      *)
(* A null foreign key, and a cached None, is the id 0.                     *)
(***************************************************************************)
NoId == 0

\* Model.objects.get(...) over the matching records: the id of the only
\* match, "DoesNotExist" or "MultipleObjectsReturned"
Get(matches) ==
    IF matches = {} THEN [st |-> "DoesNotExist", id |-> NoId]
    ELSE IF Cardinality(matches) > 1
         THEN [st |-> "MultipleObjectsReturned", id |-> NoId]
         ELSE [st |-> "ok", id |-> (CHOOSE o \in matches : TRUE).id]

\* Organization.objects.get(name__iexact=organization_name, is_active=True)
OrganizationGet(organizations, name) ==
    Get({o \in organizations : o.is_active /\ Lower(o.name) = Lower(name)})

\* Machine.objects.get(organization=organization, name__iexact=machine_name,
\*                     serial_number__iexact=serial_number, is_active=True)
MachineGet(machineSet, organization, name, serial) ==
    Get({m \in machineSet :
            /\ m.is_active
            /\ m.organization = organization
            /\ Lower(m.name) = Lower(name)
            /\ Lower(m.serial_number) = Lower(serial)})

\* Component.objects.get(machine=machine, type__name__iexact=component_name,
\*                       is_active=True)
ComponentGet(componentSet, machine, name) ==
    Get({c \in componentSet :
            /\ c.is_active
            /\ c.machine = machine
            /\ Lower(c.type_name) = Lower(name)})

\* component_name.replace("  ", " ").strip(), over the names the model uses
CleanComponentName(name) ==
    CASE name = "Motor " -> "Motor"
      [] name = " Motor" -> "Motor"
      [] OTHER -> name

\* a dictionary d with d[key] = val added
Put(d, key, val) == [k \in DOMAIN d \cup {key} |-> IF k = key THEN val ELSE d[k]]

EmptyDict == [k \in {} |-> NoId]

\* the text of an error entry: what failed and the name it quotes
Msg(text, name) == [text |-> text, name |-> name]

\* The three resolvers return [cache, st, id, msg, lookup]: the cache
\* afterwards and either st = "ok" with the resolved id (NoId for None),
\* st = "invalid" for a ValidationError or st = "raise" for any other
\* exception; lookup holds the key of the objects.get call the resolver made,
\* and is empty when it made none.

\* ReportBulkUploadService._resolve_organization_cached
resolve_organization_cached(cache, organizations, organization_name) ==
    IF Falsy(organization_name)
    THEN [cache |-> cache, st |-> "ok", id |-> NoId, msg |-> Msg("", ""),
          lookup |-> << >>]
    ELSE
      LET g == OrganizationGet(organizations, organization_name)
          raised == organization_name \notin DOMAIN cache
                    /\ g.st = "MultipleObjectsReturned"
          c2 == IF organization_name \in DOMAIN cache \/ raised THEN cache
                ELSE Put(cache, organization_name, g.id)
          q == IF organization_name \in DOMAIN cache THEN << >>
               ELSE << << "organization", organization_name >> >>
      IN  IF raised
          THEN [cache |-> cache, st |-> "raise", id |-> NoId,
                msg |-> Msg("MultipleObjectsReturned", organization_name),
                lookup |-> q]
          ELSE IF c2[organization_name] = NoId
          THEN [cache |-> c2, st |-> "invalid", id |-> NoId,
                msg |-> Msg("Organization not found", organization_name),
                lookup |-> q]
          ELSE [cache |-> c2, st |-> "ok", id |-> c2[organization_name],
                msg |-> Msg("", ""),
                lookup |-> q]

\* ReportBulkUploadService._resolve_machine_cached
resolve_machine_cached(cache, machineSet, machine_name, serial_number, organization) ==
    IF Falsy(machine_name)
    THEN [cache |-> cache, st |-> "ok", id |-> NoId, msg |-> Msg("", ""),
          lookup |-> << >>]
    ELSE
      LET cache_key == << machine_name, serial_number, organization >>
          g == MachineGet(machineSet, organization, machine_name, serial_number)
          c2 == IF cache_key \in DOMAIN cache THEN cache
                ELSE Put(cache, cache_key, g.id)
          q == IF cache_key \in DOMAIN cache THEN << >>
               ELSE << << "machine", cache_key >> >>
      IN  IF c2[cache_key] = NoId
          THEN [cache |-> c2, st |-> "invalid", id |-> NoId,
                msg |-> Msg("Machine not found", machine_name),
                lookup |-> q]
          ELSE [cache |-> c2, st |-> "ok", id |-> c2[cache_key],
                msg |-> Msg("", ""),
                lookup |-> q]

\* ReportBulkUploadService._resolve_component_cached
resolve_component_cached(cache, componentSet, component_name, machine) ==
    IF Falsy(component_name) \/ machine = NoId
    THEN [cache |-> cache, st |-> "ok", id |-> NoId, msg |-> Msg("", ""),
          lookup |-> << >>]
    ELSE
      LET name == CleanComponentName(component_name)
          cache_key == << name, machine >>
          g == ComponentGet(componentSet, machine, name)
          raised == cache_key \notin DOMAIN cache
                    /\ g.st = "MultipleObjectsReturned"
          c2 == IF cache_key \in DOMAIN cache \/ raised THEN cache
                ELSE Put(cache, cache_key, g.id)
          q == IF cache_key \in DOMAIN cache THEN << >>
               ELSE << << "component", cache_key >> >>
      IN  IF raised
          THEN [cache |-> cache, st |-> "raise", id |-> NoId,
                msg |-> Msg("MultipleObjectsReturned", name),
                lookup |-> q]
          ELSE IF c2[cache_key] = NoId
          THEN [cache |-> c2, st |-> "invalid", id |-> NoId,
                msg |-> Msg("Component not found", name),
                lookup |-> q]
          ELSE [cache |-> c2, st |-> "ok", id |-> c2[cache_key],
                msg |-> Msg("", ""),
                lookup |-> q]

(***************************************************************************)
(* process_dataframe: filters, the row loop, the bulk inserts.             *)
(***************************************************************************)
\* pl.any_horizontal(pl.all().is_not_null()): some cell of the row is set
AnyNotNull(row) ==
    \/ row.c0 # None \/ row.lab # None \/ row.org # None
    \/ row.machine # None \/ row.serial # None \/ row.comp # None
    \/ row.sdate.k # "none" \/ row.mhk.k # "none" \/ row.lhk.k # "none"
    \/ row.tbn.k # "none" \/ row.iron.k # "none" \/ row.visual # None

\* some title pattern is a substring of the upper-cased first cell, over the
\* first cells the model uses
ContainsTitlePattern(c0) ==
    c0 \in {"NUMERO", "REPORTE DE INSPECCIONES", "No. Lab", "Laboratorio"}

\* ReportBulkUploadService._filter_header_rows keeps a row when none of the
\* patterns is found in column_0; a null column_0 makes the predicate null
\* and polars' filter drops the row
NotHeaderRow(row) == row.c0 # None /\ ~ContainsTitlePattern(row.c0)

filter_header_rows(rows) == SelectSeq(rows, NotHeaderRow)

\* ReportBulkUploadService._extract_lab_numbers
extract_lab_numbers(rows) ==
    {rows[i].lab : i \in 1..Len(rows)} \ {None, ""}

\* a lookup that finds no stored lab number
get_existing_lab_numbers_none(reportSet, lab_numbers) == {}

\* ReportBulkUploadService._get_existing_lab_numbers
get_existing_lab_numbers(reportSet, lab_numbers) ==
    {r.lab_number : r \in {x \in reportSet : x.lab_number \in lab_numbers}}

\* a filter that gives the whole batch up when it holds a duplicate
FilterDuplicatesAll(rows, existing) ==
    IF existing = {} THEN rows ELSE << >>

\* df.filter(~pl.col("column_1").is_in(existing)): a null column_1 makes the
\* predicate null and the row is dropped
FilterDuplicates(rows, existing) ==
    IF existing = {} THEN rows
    ELSE LET Keep(row) == row.lab # None /\ row.lab \notin existing
         IN  SelectSeq(rows, Keep)

ErrorEntry(row_number, lab_number, msg, field) ==
    [row_number |-> row_number, lab_number |-> lab_number,
     error |-> msg, field |-> field]

\* the row_number of the bulk_create error entry (None in the source)
NoRow == 0

\* the state of the row loop before the first row
LoopStart ==
    [report_data_list |-> << >>, lab_analysis_data_list |-> << >>,
     errors |-> << >>, org_cache |-> EmptyDict, machine_cache |-> EmptyDict,
     component_cache |-> EmptyDict, lookups |-> << >>]

\* the row once its component is resolved: the row is kept for the bulk
\* insert, or gets its error entry
WithComponent(acc, report_data, lab_data, row_num, organization, machine, c) ==
    IF c.st # "ok"
    THEN [acc EXCEPT !.component_cache = c.cache, !.lookups = @ \o c.lookup,
            !.errors = Append(@,
              IF c.st = "invalid"
              THEN ErrorEntry(row_num, report_data.lab_number, c.msg,
                              "entity_resolution")
              ELSE ErrorEntry(row_num, None, c.msg, "unknown"))]
    ELSE [acc EXCEPT !.component_cache = c.cache, !.lookups = @ \o c.lookup,
            !.report_data_list = Append(@,
              [lab_number |-> report_data.lab_number,
               organization |-> organization, machine |-> machine,
               component |-> c.id,
               serial_number_code |-> report_data.serial_number_code,
               sample_date |-> report_data.sample_date,
               machine_hours |-> report_data.machine_hours,
               machine_kms |-> report_data.machine_kms,
               lubricant_hours |-> report_data.lubricant_hours,
               lubricant_kms |-> report_data.lubricant_kms]),
            !.lab_analysis_data_list = Append(@, lab_data)]

\* the row once its machine is resolved
WithMachine(acc, report_data, lab_data, row_num, organization, m, componentSet) ==
    IF m.st # "ok"
    THEN [acc EXCEPT !.machine_cache = m.cache, !.lookups = @ \o m.lookup,
            !.errors = Append(@,
              ErrorEntry(row_num, report_data.lab_number, m.msg,
                         "entity_resolution"))]
    ELSE WithComponent([acc EXCEPT !.machine_cache = m.cache,
                                   !.lookups = @ \o m.lookup],
                       report_data, lab_data, row_num, organization, m.id,
                       resolve_component_cached(acc.component_cache, componentSet,
                                                report_data.component_name, m.id))

\* the row once its organization is resolved
WithOrganization(acc, report_data, lab_data, row_num, o, machineSet, componentSet) ==
    IF o.st # "ok"
    THEN [acc EXCEPT !.org_cache = o.cache, !.lookups = @ \o o.lookup,
            !.errors = Append(@,
              IF o.st = "invalid"
              THEN ErrorEntry(row_num, report_data.lab_number, o.msg,
                              "entity_resolution")
              ELSE ErrorEntry(row_num, None, o.msg, "unknown"))]
    ELSE WithMachine([acc EXCEPT !.org_cache = o.cache,
                                 !.lookups = @ \o o.lookup],
                     report_data, lab_data, row_num, o.id,
                     resolve_machine_cached(acc.machine_cache, machineSet,
                                            report_data.machine_name,
                                            report_data.serial_number_code, o.id),
                     componentSet)

\* the body of the loop after _extract_row_data returned
ResolveRow(acc, report_data, lab_data, row_num, organizations, machineSet, componentSet) ==
    IF Falsy(report_data.lab_number)
    THEN [acc EXCEPT !.errors = Append(@,
            ErrorEntry(row_num, None,
                       Msg("Lab Number is required", ""), "lab_number"))]
    ELSE WithOrganization(acc, report_data, lab_data, row_num,
                          resolve_organization_cached(acc.org_cache, organizations,
                                                      report_data.organization_name),
                          machineSet, componentSet)

\* one iteration of the loop `for row_num, row in enumerate(..., start=3)`
ProcessRow(acc, row, row_num, organizations, machineSet, componentSet) ==
    IF ExtractRaises(row)
    THEN [acc EXCEPT !.errors = Append(@,
            ErrorEntry(row_num, None, Msg("ValueError", ""), "unknown"))]
    ELSE ResolveRow(acc, extract_report_data(row), extract_lab_analysis_data(row),
                    row_num, organizations, machineSet, componentSet)

\* a loop that stops at the first row that adds an error entry
RECURSIVE RowLoopStopAtError(_, _, _, _, _, _)
RowLoopStopAtError(acc, rows, i, organizations, machineSet, componentSet) ==
    IF i > Len(rows) \/ Len(acc.errors) > 0 THEN acc
    ELSE RowLoopStopAtError(ProcessRow(acc, rows[i], i + 2,
                                       organizations, machineSet, componentSet),
                            rows, i + 1, organizations, machineSet, componentSet)

\* the whole loop over df.iter_rows, rows numbered from 3
RECURSIVE RowLoop(_, _, _, _, _, _)
RowLoop(acc, rows, i, organizations, machineSet, componentSet) ==
    IF i > Len(rows) THEN acc
    ELSE RowLoop(ProcessRow(acc, rows[i], i + 2,
                            organizations, machineSet, componentSet),
                 rows, i + 1, organizations, machineSet, componentSet)

(***************************************************************************)
(* State.                                                                  *)
(***************************************************************************)
VARIABLES
    reports,          \* table Report
    analyses,         \* table LabAnalysis
    nextReportId,     \* next primary key of Report
    nextAnalysisId,   \* next primary key of LabAnalysis
    organizations,    \* table Organization
    machines,         \* table Machine
    components,       \* table Component
    runs,             \* number of ingestion runs so far
    op,               \* the operation that ran last
    df,               \* the rows of the file the last run loaded
    called,           \* whether the last run called process_dataframe
    passed,           \* the rows the last run handed to process_dataframe
    bulkRaised,       \* the bulk insert that raised in the last run, if any
    results,          \* the results dictionary of the last run
    lookups,          \* the keys of the objects.get calls of the last run
    status            \* the status of the last task result

ingestVars == << reports, analyses, nextReportId, nextAnalysisId,
                 organizations, machines, components, runs, op, df, called,
                 passed,
                 bulkRaised, results, lookups, status >>

VARIABLES
    now,          \* the clock, in seconds
    tokenEntry,   \* cache entry TOKEN_CACHE_KEY
    expiryEntry,  \* cache entry TOKEN_EXPIRY_CACHE_KEY
    issued,       \* number of tokens the portal has issued
    config,       \* the constance settings of the integration
    call,         \* what the last client call did
    task          \* the download task: retry bookkeeping and last outcome

clientVars == << now, tokenEntry, expiryEntry, issued, config, call, task >>

VARIABLES
    tempFile,     \* the temporary file of the last download: "none" when
                  \* none was created, "exists", "deleted"
    flow          \* what the last download_and_process_report_task gave

flowVars == << tempFile, flow >>

VARIABLES
    parsing       \* a call of a cell parser: its argument and what it gave

VARIABLES
    overlap,      \* two ingestion runs that overlap: where each run is, what
                  \* its duplicate check found and kept, and its results
    clients,      \* two clients inside get_token: where each client is and
                  \* what it holds in its local variables
    ownExpiry     \* for each token the portal issued, the expiry of its login

raceVars == << overlap, clients, ownExpiry >>


\* results = {"created": 0, "updated": 0, "errors": [], "skipped": 0}
EmptyResults == [created |-> 0, updated |-> 0, errors |-> << >>, skipped |-> 0]

Range(seq) == {seq[i] : i \in 1..Len(seq)}

\* ReportBulkUploadService._bulk_create_reports: one Report per entry of
\* report_data_list, in order, with consecutive primary keys
bulk_create_reports(report_data_list, firstId) ==
    [i \in 1..Len(report_data_list) |->
        [id |-> firstId + i - 1,
         lab_number |-> report_data_list[i].lab_number,
         organization |-> report_data_list[i].organization,
         machine |-> report_data_list[i].machine,
         component |-> report_data_list[i].component,
         serial_number_code |-> report_data_list[i].serial_number_code,
         sample_date |-> report_data_list[i].sample_date,
         machine_hours |-> report_data_list[i].machine_hours,
         machine_kms |-> report_data_list[i].machine_kms,
         lubricant_hours |-> report_data_list[i].lubricant_hours,
         lubricant_kms |-> report_data_list[i].lubricant_kms]]

\* a constraint that only looks at the stored rows, not at the batch itself
UniqueViolationStoredOnly(reportSet, created) ==
    \E i \in 1..Len(created) :
       \E r \in reportSet : r.lab_number = created[i].lab_number

\* the unique constraint on Report.lab_number: the insert raises
\* IntegrityError when a lab_number is already stored or occurs twice
UniqueViolation(reportSet, created) ==
    \/ \E i \in 1..Len(created) :
          \E r \in reportSet : r.lab_number = created[i].lab_number
    \/ \E i, j \in 1..Len(created) :
          i # j /\ created[i].lab_number = created[j].lab_number

\* the zip pairing the reports with the payloads in reverse order
bulk_create_lab_analyses_reversed(created_reports, lab_analysis_data_list, firstId) ==
    LET n == Len(lab_analysis_data_list)
    IN  [i \in 1..Len(created_reports) |->
            [id |-> firstId + i - 1,
             report |-> created_reports[i].id,
             visual_appearance |-> lab_analysis_data_list[n + 1 - i].visual_appearance,
             tbn |-> lab_analysis_data_list[n + 1 - i].tbn,
             iron_fe |-> lab_analysis_data_list[n + 1 - i].iron_fe]]

\* ReportBulkUploadService._bulk_create_lab_analyses:
\* zip(reports, lab_analysis_data_list)
bulk_create_lab_analyses(created_reports, lab_analysis_data_list, firstId) ==
    LET n == IF Len(created_reports) < Len(lab_analysis_data_list)
             THEN Len(created_reports) ELSE Len(lab_analysis_data_list)
    IN  [i \in 1..n |->
            [id |-> firstId + i - 1,
             report |-> created_reports[i].id,
             visual_appearance |-> lab_analysis_data_list[i].visual_appearance,
             tbn |-> lab_analysis_data_list[i].tbn,
             iron_fe |-> lab_analysis_data_list[i].iron_fe]]

\* the block without a transaction: what was inserted stays
TransactionNoRollback(before, inside, raised) == inside

\* with transaction.atomic(): the tables as the block left them, or as they
\* were before the block when it raised
TransactionAtomic(before, inside, raised) == IF raised THEN before ELSE inside

\* the tables as one value
Database(reportSet, analysisSet, reportId, analysisId) ==
    [reports |-> reportSet, analyses |-> analysisSet,
     nextReportId |-> reportId, nextAnalysisId |-> analysisId]

\* the outcome of the atomic block: created_reports and created_analyses are
\* what the two bulk inserts build, reportsRaise and analysesRaise tell which
\* of them raised
BulkOutcome(partial, acc, before, created_reports, created_analyses, reportsRaise, analysesRaise) ==
    IF reportsRaise \/ analysesRaise
    THEN [results |-> [partial EXCEPT !.created = 0,
             !.errors = Append(acc.errors,
                ErrorEntry(NoRow, None, Msg("Bulk creation failed", ""),
                           "bulk_create"))],
          db |-> TransactionAtomic(before,
                    Database(IF reportsRaise THEN before.reports
                             ELSE before.reports \cup Range(created_reports),
                             before.analyses,
                             IF reportsRaise THEN before.nextReportId
                             ELSE before.nextReportId + Len(created_reports),
                             before.nextAnalysisId),
                    TRUE),
          raised |-> IF reportsRaise THEN "reports" ELSE "analyses",
          lookups |-> acc.lookups]
    ELSE [results |-> [partial EXCEPT !.created = Len(created_reports),
                                      !.errors = acc.errors],
          db |-> TransactionAtomic(before,
                    Database(before.reports \cup Range(created_reports),
                             before.analyses \cup Range(created_analyses),
                             before.nextReportId + Len(created_reports),
                             before.nextAnalysisId + Len(created_analyses)),
                    FALSE),
          raised |-> "none", lookups |-> acc.lookups]

\* the two bulk inserts on the reports built from report_data_list
BulkCreate(partial, acc, before, created_reports, dbFail) ==
    BulkOutcome(partial, acc, before, created_reports,
                bulk_create_lab_analyses(created_reports,
                                         acc.lab_analysis_data_list,
                                         before.nextAnalysisId),
                dbFail = "reports" \/ UniqueViolation(before.reports, created_reports),
                /\ dbFail = "analyses"
                /\ dbFail # "reports"
                /\ ~UniqueViolation(before.reports, created_reports))

\* process_dataframe after the row loop: acc is what the loop collected
AfterLoop(partial, acc, before, dbFail) ==
    IF Len(acc.report_data_list) = 0
    THEN [results |-> [partial EXCEPT !.errors = acc.errors], db |-> before,
          raised |-> "none", lookups |-> acc.lookups]
    ELSE BulkCreate(partial, acc, before,
                    bulk_create_reports(acc.report_data_list, before.nextReportId),
                    dbFail)

\* process_dataframe after the duplicate filter: fresh are the rows it kept
AfterDedupe(existing_lab_numbers, fresh, before, dbFail) ==
    IF Len(fresh) = 0
    THEN [results |-> [EmptyResults EXCEPT
                          !.skipped = Cardinality(existing_lab_numbers)],
          db |-> before, raised |-> "none", lookups |-> << >>]
    ELSE AfterLoop([EmptyResults EXCEPT
                       !.skipped = Cardinality(existing_lab_numbers)],
                   RowLoop(LoopStart, fresh, 1, organizations, machines, components),
                   before, dbFail)

\* the duplicate filter: existing_lab_numbers are the lab numbers of data
\* that are stored
Dedupe(data, existing_lab_numbers, before, dbFail) ==
    AfterDedupe(existing_lab_numbers,
                FilterDuplicates(data, existing_lab_numbers), before, dbFail)

\* process_dataframe after the header filter: data are the rows it kept
AfterHeaderFilter(data, before, dbFail) ==
    IF Len(data) = 0
    THEN [results |-> EmptyResults, db |-> before, raised |-> "none",
          lookups |-> << >>]
    ELSE Dedupe(data,
                get_existing_lab_numbers(before.reports, extract_lab_numbers(data)),
                before, dbFail)

\* ReportBulkUploadService.process_dataframe on the rows of a DataFrame;
\* dbFail names the bulk insert the database fails ("none" for neither).
\* The result is [results, db, raised, lookups]: the results dictionary, the
\* tables afterwards, the bulk insert that raised and the keys of the
\* objects.get calls the resolvers made
process_dataframe(rows, dbFail) ==
    AfterHeaderFilter(filter_header_rows(SelectSeq(rows, AnyNotNull)),
                      Database(reports, analyses, nextReportId, nextAnalysisId),
                      dbFail)

(***************************************************************************)
(* The incremental filter of process_report_task.                          *)
(***************************************************************************)
\* Report.objects.filter(sample_date__isnull=False).order_by("-sample_date")
\* .first(): the latest stored sample_date, NoDate when there is none
LastSampleDate(reportSet) ==
    LET dated == {r.sample_date : r \in {x \in reportSet : x.sample_date # NoDate}}
    IN  IF dated = {} THEN NoDate
        ELSE CHOOSE d \in dated : \A e \in dated : e <= d

\* the filter with >= in place of >
IncrementalFilterInclusive(rows, last) ==
    LET Keep(row) == /\ parse_polars_date(row.sdate) # NoDate
                     /\ parse_polars_date(row.sdate) >= last
    IN  SelectSeq(rows, Keep)

\* df.filter(pl.col("parsed_sample_date") > last_report.sample_date): a row
\* whose date does not parse has a null predicate and is dropped
IncrementalFilter(rows, last) ==
    LET Keep(row) == /\ parse_polars_date(row.sdate) # NoDate
                     /\ parse_polars_date(row.sdate) > last
    IN  SelectSeq(rows, Keep)

\* the status process_report_task derives from the results
TaskStatus(res) ==
    IF Len(res.errors) > 0
    THEN (IF res.created > 0 THEN "partial_success" ELSE "error")
    ELSE "success"

(***************************************************************************)
(* Initial state: an empty report store and the reference entities of the  *)
(* deployment.                                                             *)
(***************************************************************************)
InitIngest ==
    /\ reports = {}
    /\ analyses = {}
    /\ nextReportId = 1
    /\ nextAnalysisId = 1
    /\ organizations =
          {[id |-> 1, name |-> "Acme", is_active |-> TRUE],
           [id |-> 2, name |-> "Dormant", is_active |-> FALSE],
           [id |-> 3, name |-> "Duo", is_active |-> TRUE],
           [id |-> 4, name |-> "DUO", is_active |-> TRUE]}
    /\ machines =
          {[id |-> 1, organization |-> 1, name |-> "Pump",
            serial_number |-> "S1", is_active |-> TRUE],
           [id |-> 2, organization |-> 1, name |-> "Twin",
            serial_number |-> "S2", is_active |-> TRUE],
           [id |-> 3, organization |-> 1, name |-> "TWIN",
            serial_number |-> "s2", is_active |-> TRUE],
           [id |-> 4, organization |-> 1, name |-> "Transportes Sur",
            serial_number |-> "T1", is_active |-> TRUE]}
    /\ components =
          {[id |-> 1, machine |-> 1, type_name |-> "Motor", is_active |-> TRUE],
           [id |-> 2, machine |-> 4, type_name |-> "Motor", is_active |-> TRUE]}
    /\ runs = 0
    /\ op = "init"
    /\ df = << >>
    /\ called = FALSE
    /\ passed = << >>
    /\ bulkRaised = "none"
    /\ results = EmptyResults
    /\ lookups = << >>
    /\ status = "none"

(***************************************************************************)
(* Operations.                                                             *)
(***************************************************************************)
DbFailures == {"none", "reports", "analyses"}

\* the run leaves what process_dataframe returned and stored
Commit(out) ==
    /\ bulkRaised' = out.raised
    /\ results' = out.results
    /\ lookups' = out.lookups
    /\ reports' = out.db.reports
    /\ analyses' = out.db.analyses
    /\ nextReportId' = out.db.nextReportId
    /\ nextAnalysisId' = out.db.nextAnalysisId

\* ReportBulkUploadService.process_file on a spreadsheet whose rows below
\* the header are `rows`
ProcessFile(rows, dbFail) ==
    /\ runs < MaxRuns
    /\ runs' = runs + 1
    /\ op' = "process_file"
    /\ df' = rows
    /\ called' = TRUE
    /\ passed' = rows
    /\ status' = "none"
    /\ Commit(process_dataframe(rows, dbFail))
    /\ UNCHANGED << organizations, machines, components >>
    /\ UNCHANGED clientVars
    /\ UNCHANGED flowVars
    /\ UNCHANGED << parsing, raceVars >>

\* process_report_task from the incremental filter on: filtered are the rows
\* the filter kept
ProcessFiltered(filtered, dbFail) ==
    IF Len(filtered) = 0
    THEN /\ called' = FALSE
         /\ bulkRaised' = "none"
         /\ passed' = << >>
         /\ results' = EmptyResults
         /\ lookups' = << >>
         /\ status' = "success"
         /\ UNCHANGED << reports, analyses, nextReportId, nextAnalysisId >>
    ELSE /\ called' = TRUE
         /\ passed' = filtered
         /\ Commit(process_dataframe(filtered, dbFail))
         /\ status' = TaskStatus(results')

\* finally: if path.exists(): path.unlink()
Unlink == tempFile' = "deleted"

\* process_report_task on a downloaded file whose rows below the header are
\* `rows`
ProcessReportTask(rows, dbFail) ==
    /\ runs < MaxRuns
    /\ runs' = runs + 1
    /\ op' = "process_report_task"
    /\ df' = rows
    /\ ProcessFiltered(IF LastSampleDate(reports) # NoDate
                       THEN IncrementalFilter(rows, LastSampleDate(reports))
                       ELSE rows,
                       dbFail)
    /\ Unlink
    /\ UNCHANGED << flow, parsing, raceVars >>
    /\ UNCHANGED << organizations, machines, components >>
    /\ UNCHANGED clientVars

\* process_dataframe of run r up to the duplicate filter (lines 173-205):
\* the run reads the stored lab numbers and keeps the rows it does not find
RunCheck(r, rows) ==
    /\ overlap[r].pc = "idle"
    /\ LET data == filter_header_rows(SelectSeq(rows, AnyNotNull))
           existing == get_existing_lab_numbers(reports, extract_lab_numbers(data))
       IN  overlap' = [overlap EXCEPT
                          ![r] = [pc |-> "checked", existing |-> existing,
                                  fresh |-> FilterDuplicates(data, existing),
                                  results |-> EmptyResults]]
    /\ UNCHANGED ingestVars
    /\ UNCHANGED << clientVars, flowVars, parsing, clients, ownExpiry >>

\* a run whose check and insert are one step: the insert looks the rows up
\* again
RunInsertRechecked(r) ==
    /\ overlap[r].pc = "checked"
    /\ Commit(Dedupe(overlap[r].fresh,
                     get_existing_lab_numbers(reports,
                                              extract_lab_numbers(overlap[r].fresh)),
                     Database(reports, analyses, nextReportId, nextAnalysisId),
                     "none"))
    /\ overlap' = [overlap EXCEPT ![r].pc = "done", ![r].results = results']
    /\ UNCHANGED << organizations, machines, components, runs, op, df, called,
                    passed, status >>
    /\ UNCHANGED << clientVars, flowVars, parsing, clients, ownExpiry >>

\* run r inserts the rows its check kept, whatever the store holds now
RunInsert(r) ==
    /\ overlap[r].pc = "checked"
    /\ Commit(AfterDedupe(overlap[r].existing, overlap[r].fresh,
                          Database(reports, analyses, nextReportId, nextAnalysisId),
                          "none"))
    /\ overlap' = [overlap EXCEPT ![r].pc = "done", ![r].results = results']
    /\ UNCHANGED << organizations, machines, components, runs, op, df, called,
                    passed, status >>
    /\ UNCHANGED << clientVars, flowVars, parsing, clients, ownExpiry >>

\* Component.objects.create(machine=pump, type=gearbox, is_active=True): the
\* component the feed names is registered between two runs
CreateComponent ==
    /\ runs > 0
    /\ \A c \in components : c.type_name # "Gearbox"
    /\ components' = components \cup
                        {[id |-> 3, machine |-> 1, type_name |-> "Gearbox",
                          is_active |-> TRUE]}
    /\ UNCHANGED << reports, analyses, nextReportId, nextAnalysisId,
                    organizations, machines, runs, op, df, called, passed,
                    bulkRaised, results, lookups, status >>
    /\ UNCHANGED clientVars
    /\ UNCHANGED flowVars
    /\ UNCHANGED << parsing, raceVars >>

(***************************************************************************)
(* The Intertek API client: token cache, authentication, requests.         *)
(***************************************************************************)
\* IntertekAPIClient.TOKEN_EXPIRY_BUFFER, in seconds
TOKEN_EXPIRY_BUFFER == 300
\* the lifetime _authenticate assumes when the response names none
DefaultExpiresIn == 86400
\* @shared_task(max_retries=3, default_retry_delay=300)
max_retries == 3
default_retry_delay == 300

\* a value cache.get does not find
Missing == -1

\* a cache entry [set, val, deadline]; the entry is found until its deadline
NoEntry == [set |-> FALSE, val |-> Missing, deadline |-> 0]

\* cache.get(key)
CacheGet(entry, t) ==
    IF entry.set /\ t < entry.deadline THEN entry.val ELSE Missing

\* cache.set(key, value, timeout) at time t
CacheSet(value, timeout, t) ==
    [set |-> TRUE, val |-> value, deadline |-> t + timeout]

\* The cache is the pair [token, expiry] of its two entries.
\* _get_cached_token comparing with > in place of >=: the token is still
\* used at expiry - buffer
get_cached_token_late(cache, t) ==
    LET token == CacheGet(cache.token, t)
        expiry == CacheGet(cache.expiry, t)
    IN  IF token = Missing \/ expiry = Missing THEN Missing
        ELSE IF t > expiry - TOKEN_EXPIRY_BUFFER THEN Missing
        ELSE token

\* IntertekAPIClient._get_cached_token: the token, Missing for None
get_cached_token(cache, t) ==
    LET token == CacheGet(cache.token, t)
        expiry == CacheGet(cache.expiry, t)
    IN  IF token = Missing \/ expiry = Missing THEN Missing
        ELSE IF t >= expiry - TOKEN_EXPIRY_BUFFER THEN Missing
        ELSE token

\* IntertekAPIClient._cache_token
cache_token(token, expires_in, t) ==
    [token |-> CacheSet(token, expires_in, t),
     expiry |-> CacheSet(t + expires_in, expires_in, t)]

\* an invalidation that leaves the cache as it is
KeepCache(cache) == cache

\* cache.delete(TOKEN_CACHE_KEY); cache.delete(TOKEN_EXPIRY_CACHE_KEY)
InvalidateCache(cache) == [token |-> NoEntry, expiry |-> NoEntry]

\* What the portal answers to a login: [kind, expires_in]
\*   "ok"       a token, with the lifetime expires_in
\*   "message"  a body with a message field (bad credentials)
\*   "no_token" a body without accessToken
\*   "null_data" a body whose data field is null: data.get("data", {}) gives
\*              None and None.get raises AttributeError, which no except
\*              clause of _authenticate catches
\*   "failed"   the POST raised a RequestException (network, HTTP status)
\*   "unused"   no login was needed
Login(kind, expires_in) == [kind |-> kind, expires_in |-> expires_in]

LoginAnswers ==
    {Login("ok", e) : e \in {600, DefaultExpiresIn}} \cup
    {Login(k, 0) : k \in {"message", "no_token", "failed"}}

Unused == Login("unused", 0)

\* a client run: the cache, the tokens issued, the logins posted so far
ClientState(cache, n, logins) == [cache |-> cache, issued |-> n, logins |-> logins]

\* IntertekAPIClient._authenticate: [cs, error, token]
authenticate(cs, answer, t) ==
    IF answer.kind = "ok"
    THEN [cs |-> ClientState(cache_token(cs.issued + 1, answer.expires_in, t),
                             cs.issued + 1, cs.logins + 1),
          error |-> "none", token |-> cs.issued + 1]
    ELSE IF answer.kind = "null_data"
    THEN [cs |-> ClientState(cs.cache, cs.issued, cs.logins + 1),
          error |-> "AttributeError", token |-> Missing]
    ELSE [cs |-> ClientState(cs.cache, cs.issued, cs.logins + 1),
          error |-> "AuthenticationError", token |-> Missing]

\* IntertekAPIClient.get_token: [cs, error, token]
get_token(cs, answer, t) ==
    IF get_cached_token(cs.cache, t) # Missing
    THEN [cs |-> cs, error |-> "none", token |-> get_cached_token(cs.cache, t)]
    ELSE authenticate(cs, answer, t)

\* get_token posts a login exactly when the cache gives no token
NeedsLogin(cache, t) == get_cached_token(cache, t) = Missing

\* What the portal answers to a request: 200, 401, 500, or 0 when the
\* request raised a RequestException that is no HTTPError; -1 when the
\* request was not sent
Answers == {200, 401, 500, 0}
NotSent == -1

\* what _make_authenticated_request did:
\* [cs, error, sent, answers, invalidations, relogins]
RequestResult(cs, error, sent, answers, invalidations, relogins) ==
    [cs |-> cs, error |-> error, sent |-> sent, answers |-> answers,
     invalidations |-> invalidations, relogins |-> relogins]

\* the retry after a 401: g1 is what the first get_token gave, g2 what the
\* get_token over the cleared cache gave
RetryRequest(g1, g2, answer1, answer2) ==
    IF g2.error # "none"
    THEN RequestResult(g2.cs, g2.error, << g1.token >>, << answer1 >>, 1,
                       g2.cs.logins - g1.cs.logins)
    ELSE IF answer2 = 200
    THEN RequestResult(g2.cs, "none", << g1.token, g2.token >>,
                       << answer1, answer2 >>, 1, g2.cs.logins - g1.cs.logins)
    ELSE RequestResult(g2.cs, "TokenExpiredError", << g1.token, g2.token >>,
                       << answer1, answer2 >>, 1, g2.cs.logins - g1.cs.logins)

\* a request that answers every failure like a 401: it clears the cache and
\* tries again
FirstRequestRetryAny(g1, answer1, login2, answer2, t) ==
    IF g1.error # "none"
    THEN RequestResult(g1.cs, g1.error, << >>, << >>, 0, 0)
    ELSE IF answer1 = 200
    THEN RequestResult(g1.cs, "none", << g1.token >>, << answer1 >>, 0, 0)
    ELSE RetryRequest(g1,
                      get_token(ClientState(InvalidateCache(g1.cs.cache),
                                            g1.cs.issued, g1.cs.logins),
                                login2, t),
                      answer1, answer2)

\* the request with the token g1 holds
FirstRequest(g1, answer1, login2, answer2, t) ==
    IF g1.error # "none"
    THEN RequestResult(g1.cs, g1.error, << >>, << >>, 0, 0)
    ELSE IF answer1 = 200
    THEN RequestResult(g1.cs, "none", << g1.token >>, << answer1 >>, 0, 0)
    ELSE IF answer1 = 401
    THEN RetryRequest(g1,
                      get_token(ClientState(InvalidateCache(g1.cs.cache),
                                            g1.cs.issued, g1.cs.logins),
                                login2, t),
                      answer1, answer2)
    ELSE RequestResult(g1.cs, "APIRequestError", << g1.token >>, << answer1 >>, 0, 0)

\* IntertekAPIClient._make_authenticated_request
make_authenticated_request(cs, login1, answer1, login2, answer2, t) ==
    FirstRequest(get_token(cs, login1, t), answer1, login2, answer2, t)

\* The answers a call can meet: one for each login posted and request sent
Login1Answers(cache, t) ==
    IF NeedsLogin(cache, t) THEN LoginAnswers ELSE {Unused}

Answer1Answers(login1) ==
    IF login1.kind \in {"ok", "unused"} THEN Answers ELSE {NotSent}

Login2Answers(answer1) ==
    IF answer1 = 401 THEN LoginAnswers ELSE {Unused}

Answer2Answers(login2) ==
    IF login2.kind = "ok" THEN Answers ELSE {NotSent}

\* IntertekAPIClient.download_inspection_report: the error it raises, "none"
\* when the file was written.  writeRaises: temp_file.write raises
download_error(requestError, writeRaises) ==
    IF requestError # "none" THEN "FileDownloadError"
    ELSE IF writeRaises THEN "FileDownloadError"
    ELSE "none"

\* isinstance(e, (AuthenticationError, APIRequestError)) over the classes of
\* apps.etl.exceptions
IsAuthOrRequestError(e) == e \in {"AuthenticationError", "APIRequestError"}

\* a factory that does not look at the credentials
get_intertek_client_unchecked(cfg) ==
    IF ~cfg.enabled THEN "ETLException" ELSE "none"

\* apps.etl.utils.get_intertek_client: the error it raises, "none" when it
\* returns a client
get_intertek_client(cfg) ==
    IF ~cfg.enabled THEN "ETLException"
    ELSE IF cfg.username = "" \/ cfg.password = "" THEN "ETLException"
    ELSE "none"

NoCall ==
    [op |-> "none", logins |-> 0, sent |-> << >>, answers |-> << >>,
     invalidations |-> 0, relogins |-> 0, error |-> "none", token |-> Missing,
     expires_in |-> 0]

InitClient ==
    /\ now = 0
    /\ tokenEntry = NoEntry
    /\ expiryEntry = NoEntry
    /\ issued = 0
    /\ config = [enabled |-> TRUE, username |-> "KMELGAR", password |-> "KMELGAR"]
    /\ call = NoCall
    /\ task = [state |-> "idle", retries |-> 0, eta |-> 0, outcome |-> "none",
               error |-> "none", cause |-> "none", client |-> FALSE,
               logins |-> 0, requests |-> 0, config |-> config]

\* time passes
Tick(d) ==
    /\ now + d <= MaxTime
    /\ now' = now + d
    /\ UNCHANGED << tokenEntry, expiryEntry, issued, config, call, task >>
    /\ UNCHANGED ingestVars
    /\ UNCHANGED flowVars
    /\ UNCHANGED << parsing, raceVars >>

\* an administrator changes the constance settings
SetConfig(cfg) ==
    /\ cfg # config
    /\ config' = cfg
    /\ UNCHANGED << now, tokenEntry, expiryEntry, issued, call, task >>
    /\ UNCHANGED ingestVars
    /\ UNCHANGED flowVars
    /\ UNCHANGED << parsing, raceVars >>

Configs ==
    {[enabled |-> TRUE, username |-> "KMELGAR", password |-> "KMELGAR"],
     [enabled |-> FALSE, username |-> "KMELGAR", password |-> "KMELGAR"],
     [enabled |-> TRUE, username |-> "", password |-> "KMELGAR"],
     [enabled |-> TRUE, username |-> "KMELGAR", password |-> ""]}

\* the shared cache and the portal as a client meets them
Client == ClientState([token |-> tokenEntry, expiry |-> expiryEntry], issued, 0)

\* the cache and the portal as a client call left them
ClientLeft(cs) ==
    /\ cs.issued <= MaxTokens
    /\ tokenEntry' = cs.cache.token
    /\ expiryEntry' = cs.cache.expiry
    /\ issued' = cs.issued

\* get_token ended as g
TokenGot(g, answer) ==
    /\ ClientLeft(g.cs)
    /\ call' = [NoCall EXCEPT !.op = "get_token", !.logins = g.cs.logins,
                   !.error = g.error, !.token = g.token,
                   !.expires_in = answer.expires_in]

\* a call of IntertekAPIClient.get_token
GetToken(answer) ==
    /\ TokenGot(get_token(Client, answer, now), answer)
    /\ UNCHANGED << now, config, task >>
    /\ UNCHANGED ingestVars
    /\ UNCHANGED flowVars
    /\ UNCHANGED << parsing, raceVars >>

\* _make_authenticated_request ended as r, called by caller
RequestDone(r, caller) ==
    /\ ClientLeft(r.cs)
    /\ call' = [NoCall EXCEPT !.op = caller, !.logins = r.cs.logins,
                   !.sent = r.sent, !.answers = r.answers,
                   !.invalidations = r.invalidations,
                   !.relogins = r.relogins, !.error = r.error]

\* a call of IntertekAPIClient._make_authenticated_request
MakeAuthenticatedRequest(login1, answer1, login2, answer2) ==
    /\ RequestDone(make_authenticated_request(Client, login1, answer1,
                                              login2, answer2, now),
                   "request")
    /\ UNCHANGED << now, config, task >>
    /\ UNCHANGED ingestVars
    /\ UNCHANGED flowVars
    /\ UNCHANGED << parsing, raceVars >>

\* One cache operation of _get_cached_token in client c, called by
\* get_token: cache.get(TOKEN_CACHE_KEY) when the call starts, then
\* cache.get(TOKEN_EXPIRY_CACHE_KEY) and the comparison; the client returns
\* the token at time `at` or goes on to _authenticate
GetCachedTokenStep(c) ==
    /\ \/ /\ clients[c].pc \in {"idle", "returned"}
          /\ clients' = [clients EXCEPT
                            ![c].pc = "token_read",
                            ![c].token = CacheGet(tokenEntry, now)]
       \/ /\ clients[c].pc = "token_read"
          /\ LET token == clients[c].token
                 expiry == CacheGet(expiryEntry, now)
             IN  clients' = [clients EXCEPT
                    ![c].expiry = expiry,
                    ![c].at = now,
                    ![c].pc = IF token = Missing \/ expiry = Missing
                                THEN "authenticate"
                              ELSE IF now >= expiry - TOKEN_EXPIRY_BUFFER
                                THEN "authenticate"
                              ELSE "returned"]
    /\ UNCHANGED << now, tokenEntry, expiryEntry, issued, config, call, task >>
    /\ UNCHANGED << ingestVars, flowVars, parsing, overlap, ownExpiry >>

\* One cache operation of _cache_token in client c after a login the portal
\* answered with a token that lives expires_in seconds: expiry_time is
\* computed and cache.set(TOKEN_CACHE_KEY, ...) runs, then
\* cache.set(TOKEN_EXPIRY_CACHE_KEY, ...) and get_token returns the token
CacheTokenStep(c, expires_in) ==
    /\ \/ /\ clients[c].pc = "authenticate"
          /\ issued < MaxTokens
          /\ issued' = issued + 1
          /\ tokenEntry' = CacheSet(issued + 1, expires_in, now)
          /\ ownExpiry' = [ownExpiry EXCEPT ![issued + 1] = now + expires_in]
          /\ clients' = [clients EXCEPT
                            ![c].pc = "token_set",
                            ![c].token = issued + 1,
                            ![c].expiry = now + expires_in,
                            ![c].expires_in = expires_in]
          /\ UNCHANGED expiryEntry
       \/ /\ clients[c].pc = "token_set"
          /\ expires_in = clients[c].expires_in
          /\ expiryEntry' = CacheSet(clients[c].expiry, expires_in, now)
          /\ clients' = [clients EXCEPT ![c].pc = "returned", ![c].at = now]
          /\ UNCHANGED << tokenEntry, issued, ownExpiry >>
    /\ UNCHANGED << now, config, call, task >>
    /\ UNCHANGED << ingestVars, flowVars, parsing, overlap >>

\* One cache operation of the invalidation in _make_authenticated_request of
\* client c after a 401: cache.delete(TOKEN_CACHE_KEY), then
\* cache.delete(TOKEN_EXPIRY_CACHE_KEY); get_token is called next
DeleteCacheStep(c) ==
    /\ \/ /\ clients[c].pc = "returned"
          /\ tokenEntry' = NoEntry
          /\ clients' = [clients EXCEPT ![c].pc = "token_deleted"]
          /\ UNCHANGED expiryEntry
       \/ /\ clients[c].pc = "token_deleted"
          /\ expiryEntry' = NoEntry
          /\ clients' = [clients EXCEPT ![c].pc = "idle"]
          /\ UNCHANGED tokenEntry
    /\ UNCHANGED << now, issued, config, call, task >>
    /\ UNCHANGED << ingestVars, flowVars, parsing, overlap, ownExpiry >>

\* the task's record of a run
TaskRun(state, retries, eta, outcome, error, cause, client, logins, requests) ==
    [state |-> state, retries |-> retries, eta |-> eta, outcome |-> outcome,
     error |-> error, cause |-> cause, client |-> client, logins |-> logins,
     requests |-> requests, config |-> config]

\* self.retry(exc=e): a new execution after default_retry_delay while
\* retries remain, the exception itself when they are used up
Retry(retries, error, cause, logins, requests, t) ==
    IF retries < max_retries
    THEN TaskRun("retry_scheduled", retries + 1, t + default_retry_delay,
                 "retry", error, cause, TRUE, logins, requests)
    ELSE TaskRun("idle", 0, 0, "raised", error, cause, TRUE, logins, requests)

\* the task after client.download_inspection_report, whose request ended as
\* r and which raised e ("none": it returned the path).  retries is
\* max_retries when the task function was called directly: self.retry then
\* raises the exception at once
Downloaded(r, e, retries, statRaises) ==
    /\ RequestDone(r, "download")
    /\ task' =
          IF e = "none"
          THEN IF statRaises
               THEN Retry(retries, "Exception", "none",
                          r.cs.logins, Len(r.sent), now)
               ELSE TaskRun("idle", 0, 0, "success", "none", "none",
                            TRUE, r.cs.logins, Len(r.sent))
          ELSE IF IsAuthOrRequestError(e)
          THEN Retry(retries, e, r.error, r.cs.logins, Len(r.sent), now)
          ELSE TaskRun("idle", 0, 0, "error", e, r.error, TRUE,
                       r.cs.logins, Len(r.sent))

\* client.download_inspection_report inside the task
Download(r, retries, statRaises, writeRaises) ==
    Downloaded(r, download_error(r.error, writeRaises), retries, statRaises)

\* the body of download_intertek_report_task.  statRaises: file_path.stat()
\* raises after the download wrote the file
DownloadExecution(login1, answer1, login2, answer2, statRaises, writeRaises, retries) ==
    IF get_intertek_client(config) # "none"
    THEN /\ login1 = Unused /\ answer1 = NotSent
         /\ login2 = Unused /\ answer2 = NotSent
         /\ ~statRaises /\ ~writeRaises
         /\ task' = TaskRun("idle", 0, 0, "error", get_intertek_client(config),
                            "none", FALSE, 0, 0)
         /\ UNCHANGED << tokenEntry, expiryEntry, issued, call >>
    ELSE Download(make_authenticated_request(Client, login1, answer1,
                                             login2, answer2, now),
                  retries, statRaises, writeRaises)

\* whether the execution reached tempfile.NamedTemporaryFile(delete=False):
\* it comes right after the request returned a response
TempFileCreated == task'.client /\ call'.error = "none"

\* one execution of download_intertek_report_task by a worker: a fresh
\* call, or the execution a retry scheduled
DownloadTask(login1, answer1, login2, answer2, statRaises, writeRaises) ==
    /\ task.state = "retry_scheduled" => now >= task.eta
    /\ DownloadExecution(login1, answer1, login2, answer2, statRaises,
                         writeRaises,
                         IF task.state = "retry_scheduled" THEN task.retries ELSE 0)
    /\ tempFile' = IF TempFileCreated THEN "exists" ELSE "none"
    /\ UNCHANGED << flow, parsing, raceVars >>
    /\ UNCHANGED << now, config >>
    /\ UNCHANGED ingestVars

\* no parser has been called
NoParse ==
    [fn |-> "none", y |-> 0, m |-> 0, d |-> 0, format |-> "", value |-> "",
     done |-> FALSE, date |-> NoDate, polars_date |-> NoDate,
     condition |-> "", cell |-> NNone, integer |-> 0, decimal |-> NoNum]

\* _parse_integer and _parse_decimal on the number cell parsing names
ParseNumberCall ==
    /\ parsing.fn = "_parse_integer, _parse_decimal"
    /\ ~parsing.done
    /\ parsing' = [parsing EXCEPT !.done = TRUE,
                                  !.integer = parse_integer(parsing.cell),
                                  !.decimal = parse_decimal(parsing.cell)]
    /\ UNCHANGED << ingestVars, clientVars, flowVars, raceVars >>

\* _parse_date and parse_polars_date on the date parsing names, written in
\* the format it names
ParseDateCall ==
    /\ parsing.fn = "_parse_date"
    /\ ~parsing.done
    /\ ~ParseDateRaises(strftime(parsing.y, parsing.m, parsing.d, parsing.format))
    /\ parsing' =
          [parsing EXCEPT
              !.done = TRUE,
              !.date = ParseDate(strftime(parsing.y, parsing.m, parsing.d,
                                          parsing.format)),
              !.polars_date = parse_polars_date(strftime(parsing.y, parsing.m,
                                                         parsing.d, parsing.format))]
    /\ UNCHANGED << ingestVars, clientVars, flowVars, raceVars >>

\* _parse_condition on the text parsing names
ParseConditionCall ==
    /\ parsing.fn = "_parse_condition"
    /\ ~parsing.done
    /\ parsing' = [parsing EXCEPT !.done = TRUE,
                                  !.condition = parse_condition(parsing.value)]
    /\ UNCHANGED << ingestVars, clientVars, flowVars, raceVars >>

\* no download has created a file and no workflow has run
InitFlow ==
    /\ tempFile = "none"
    /\ flow = [outcome |-> "none", status |-> "none", download |-> "none",
               process |-> "none"]

\* process_report_task(file_path) inside the workflow.  readRaises:
\* pl.read_excel raises on the downloaded file
ProcessDownloaded(rows, dbFail, readRaises) ==
    /\ df' = rows
    /\ IF readRaises
       THEN /\ called' = FALSE
            /\ bulkRaised' = "none"
            /\ passed' = << >>
            /\ results' = EmptyResults
            /\ lookups' = << >>
            /\ status' = "error"
            /\ UNCHANGED << reports, analyses, nextReportId, nextAnalysisId >>
       ELSE ProcessFiltered(IF LastSampleDate(reports) # NoDate
                            THEN IncrementalFilter(rows, LastSampleDate(reports))
                            ELSE rows,
                            dbFail)
    /\ Unlink

\* if download_result.get("status") != "success": return download_result
NotProcessed ==
    /\ df' = << >>
    /\ called' = FALSE
    /\ bulkRaised' = "none"
    /\ passed' = << >>
    /\ results' = EmptyResults
    /\ lookups' = << >>
    /\ status' = "none"
    /\ UNCHANGED << reports, analyses, nextReportId, nextAnalysisId >>
    /\ tempFile' = IF TempFileCreated THEN "exists" ELSE "none"

\* what download_and_process_report_task gives: the download result when
\* its status is not "success", else status "success" around both results;
\* an exception of the download step passes through
FlowResult(download, process) ==
    [outcome |-> IF download = "raised" THEN "raised" ELSE "returned",
     status |-> IF download = "raised" THEN "none" ELSE download,
     download |-> download,
     process |-> process]

\* download_and_process_report_task: download_intertek_report_task called
\* as a function (no retry is scheduled), then process_report_task
DownloadAndProcessReportTask(login1, answer1, login2, answer2, statRaises, writeRaises, rows, dbFail, readRaises) ==
    /\ runs < MaxRuns
    /\ runs' = runs + 1
    /\ op' = "download_and_process_report_task"
    /\ DownloadExecution(login1, answer1, login2, answer2, statRaises,
                         writeRaises, max_retries)
    /\ IF task'.outcome = "success"
       THEN /\ ProcessDownloaded(rows, dbFail, readRaises)
            /\ flow' = FlowResult("success", status')
       ELSE /\ rows = << >> /\ dbFail = "none" /\ ~readRaises
            /\ NotProcessed
            /\ flow' = FlowResult(task'.outcome, "none")
    /\ UNCHANGED << organizations, machines, components >>
    /\ UNCHANGED << now, config >>
    /\ UNCHANGED << parsing, raceVars >>

(***************************************************************************)
(* Input spreadsheets.                                                     *)
(***************************************************************************)
\* "7,200 horas", "12.5" and the native number 30
Hours7200 == NCell("str", 72000, "horas", TRUE)
Tbn125 == NCell("str", 125, "", FALSE)
Iron30 == NCell("num", 300, "", FALSE)

\* <<Cliente, Equipo, Cod/Num Serie, Componente>> of a row
EntOk == << "ACME", "Pump", "S1", "Motor" >>
EntNoOrganization == << "Ghost", "Pump", "S1", "Motor" >>
EntNoMachine == << "Acme", "Pump", "S9", "Motor" >>
EntNoComponent == << "Acme", "Pump", "S1", "Gearbox" >>

\* "29/11/2025", "30-11-2025", "2025-12-01"
Date1129 == DCell("slash", 29, 11, 2025)
Date1130 == DCell("dash", 30, 11, 2025)
Date1201 == DCell("dash", 2025, 12, 1)

DataRow(lab, ent, sdate, visual) ==
    Row("1", lab, ent[1], ent[2], ent[3], ent[4], sdate,
        Hours7200, Hours7200, Tbn125, Iron30, visual)

\* rows that differ in lab number and analysis payload
RowsIngest ==
    {DataRow(lab, EntOk, Date1129, visual) :
        lab \in {"L1", "L2"}, visual \in {"Clear", "Dark"}}

\* rows that resolve and rows whose organization, machine or component
\* does not exist
RowsResolve ==
    {DataRow("L1", EntOk, Date1129, "Clear"),
     DataRow("L3", EntOk, Date1129, "Clear")} \cup
    {DataRow("L2", ent, Date1129, "Dark") :
        ent \in {EntNoOrganization, EntNoMachine, EntNoComponent}}

\* rows that differ in sample date, each date written in another format
RowsDated ==
    {DataRow("L1", EntOk, Date1129, "Clear"),
     DataRow("L2", EntOk, Date1130, "Clear"),
     DataRow("L3", EntOk, Date1201, "Clear"),
     DataRow("L4", EntOk, DNone, "Clear")}

\* rows of every kind the row loop tells apart: a machine counted in hours
\* and one counted in kilometers ("1,200 km"), usage cells left empty with
\* "-" for TBN and "" for Hierro, a
\* machine name and serial two machines answer to, a machine that does not
\* exist, an organization name two organizations answer to, and a row
\* without lab number
RowsMixed ==
    {Row("1", "L1", "Acme", "Pump", "S1", "Motor", Date1129,
         Hours7200, Hours7200, Tbn125, Iron30, "Clear"),
     Row("1", "L2", "Acme", "transportes sur", "T1", "Motor", Date1129,
         Hours7200, NCell("str", 12000, "km", TRUE), Tbn125, Iron30, "Clear"),
     Row("1", "L3", "Acme", "TRANSPORTES SUR", "T1", "Motor", Date1129,
         NNone, NNone, NCell("dash", 0, "", FALSE),
         NCell("empty", 0, "", FALSE), "Clear"),
     Row("1", "L5", "Acme", "Twin", "S2", "Motor", Date1129,
         Hours7200, Hours7200, Tbn125, Iron30, "Clear"),
     Row("1", "L6", "Acme", "Pump", "S9", "Motor", Date1129,
         Hours7200, Hours7200, Tbn125, Iron30, "Clear"),
     Row("1", "L7", "Duo", "Pump", "S1", "Motor", Date1129,
         Hours7200, Hours7200, Tbn125, Iron30, "Clear"),
     Row("1", None, "Acme", "Pump", "S1", "Motor", Date1129,
         Hours7200, Hours7200, Tbn125, Iron30, "Clear")}

\* a row that resolves and a row whose machine does not exist
RowsFlow ==
    {DataRow("L1", EntOk, Date1129, "Clear"),
     DataRow("L2", EntNoMachine, Date1130, "Clear")}

\* the rows of a sheet as the laboratory exports it: a repeated title row,
\* an empty row, a repeated header row whose first cell holds no marker, and
\* data rows: one that resolves, one of a component that is not registered
\* and one that resolves and was sampled a day later
RowsSheet ==
    {Row("REPORTE DE INSPECCIONES", None, None, None, None, None, DNone,
         NNone, NNone, NNone, NNone, None),
     Row(None, None, None, None, None, None, DNone,
         NNone, NNone, NNone, NNone, None),
     Row("Item", "No. Lab", "Laboratorio", None, None, None, DNone,
         NNone, NNone, NNone, NNone, None),
     DataRow("L1", EntOk, Date1129, "Clear"),
     DataRow("L2", EntNoComponent, Date1129, "Clear"),
     DataRow("L3", EntOk, Date1130, "Clear")}

\* the spreadsheets of at most MaxRows rows over a set of rows
Batches(U) == UNION {[1..n -> U] : n \in 0..MaxRows}

vars == << ingestVars, clientVars, flowVars, parsing, raceVars >>

\* no run has started and no client is inside get_token
InitRace ==
    /\ overlap = [r \in 1..2 |-> [pc |-> "idle", existing |-> {},
                                   fresh |-> << >>, results |-> EmptyResults]]
    /\ clients = [c \in 1..2 |-> [pc |-> "idle", token |-> Missing,
                                   expiry |-> Missing, expires_in |-> 0,
                                   at |-> 0]]
    /\ ownExpiry = [k \in 1..MaxTokens |-> 0]

Init == InitIngest /\ InitClient /\ InitFlow /\ InitRace /\ parsing = NoParse

\* uploads through process_file
NextIngest ==
    \E rows \in Batches(RowsIngest), f \in DbFailures : ProcessFile(rows, f)

Spec == Init /\ [][NextIngest]_vars

NextResolve ==
    \E rows \in Batches(RowsResolve), f \in DbFailures : ProcessFile(rows, f)

SpecResolve == Init /\ [][NextResolve]_vars

\* uploads of rows of every kind through process_file
NextRows ==
    \E rows \in Batches(RowsMixed), f \in DbFailures : ProcessFile(rows, f)

SpecRows == Init /\ [][NextRows]_vars

\* scheduled runs of process_report_task
NextTask ==
    \E rows \in Batches(RowsDated), f \in DbFailures : ProcessReportTask(rows, f)

SpecTask == Init /\ [][NextTask]_vars

\* uploads and scheduled runs over exported sheets, and the registration of
\* a component in between
NextSheet ==
    \/ \E rows \in Batches(RowsSheet) : ProcessFile(rows, "none")
    \/ \E rows \in Batches(RowsSheet) : ProcessReportTask(rows, "none")
    \/ CreateComponent

SpecSheet == Init /\ [][NextSheet]_vars

\* two runs of process_dataframe whose steps interleave
NextOverlap ==
    \/ \E r \in 1..2 : \E rows \in Batches(RowsIngest) : RunCheck(r, rows)
    \/ \E r \in 1..2 : RunInsert(r)

SpecOverlap == Init /\ [][NextOverlap]_vars

\* two clients on one cache whose cache operations interleave; the clock
\* moves only while no client is inside a call
NextRace ==
    \/ (\A c \in 1..2 : clients[c].pc \in {"idle", "returned"}) /\ Tick(300)
    \/ \E c \in 1..2 : GetCachedTokenStep(c)
    \/ \E c \in 1..2 : \E e \in {600, DefaultExpiresIn} : CacheTokenStep(c, e)
    \/ \E c \in 1..2 : DeleteCacheStep(c)

SpecRace == Init /\ [][NextRace]_vars

\* the client and the download task against the portal
NextClient ==
    LET cache == [token |-> tokenEntry, expiry |-> expiryEntry]
        configured == get_intertek_client(config) = "none"
    IN  \/ Tick(300)
        \/ \E cfg \in Configs : SetConfig(cfg)
        \/ \E answer \in Login1Answers(cache, now) \cup
                          (IF NeedsLogin(cache, now)
                           THEN {Login("null_data", 0)} ELSE {}) :
              GetToken(answer)
        \/ \E login1 \in Login1Answers(cache, now) :
              \E answer1 \in Answer1Answers(login1) :
                \E login2 \in Login2Answers(answer1) :
                  \E answer2 \in Answer2Answers(login2) :
                    MakeAuthenticatedRequest(login1, answer1, login2, answer2)
        \/ \E login1 \in IF configured THEN Login1Answers(cache, now) ELSE {Unused} :
              \E answer1 \in IF configured THEN Answer1Answers(login1) ELSE {NotSent} :
                \E login2 \in Login2Answers(answer1) :
                  \E answer2 \in Answer2Answers(login2) :
                    \E statRaises \in IF answer1 = 200 \/ answer2 = 200
                                       THEN BOOLEAN ELSE {FALSE} :
                      \E writeRaises \in IF (answer1 = 200 \/ answer2 = 200) /\ ~statRaises
                                          THEN BOOLEAN ELSE {FALSE} :
                        DownloadTask(login1, answer1, login2, answer2,
                                     statRaises, writeRaises)

SpecClient == Init /\ [][NextClient]_vars

\* runs of download_and_process_report_task under changing settings
NextFlow ==
    LET cache == [token |-> tokenEntry, expiry |-> expiryEntry]
        configured == get_intertek_client(config) = "none"
    IN  \/ \E cfg \in Configs : SetConfig(cfg)
        \/ \E login1 \in IF configured THEN Login1Answers(cache, now) ELSE {Unused} :
              \E answer1 \in IF configured THEN Answer1Answers(login1) ELSE {NotSent} :
                \E login2 \in Login2Answers(answer1) :
                  \E answer2 \in Answer2Answers(login2) :
                    \E statRaises \in IF answer1 = 200 \/ answer2 = 200
                                       THEN BOOLEAN ELSE {FALSE} :
                      \E writeRaises \in IF (answer1 = 200 \/ answer2 = 200) /\ ~statRaises
                                          THEN BOOLEAN ELSE {FALSE} :
                        \E readRaises \in IF (answer1 = 200 \/ answer2 = 200)
                                              /\ ~statRaises /\ ~writeRaises
                                           THEN BOOLEAN ELSE {FALSE} :
                          \E rows \in IF (answer1 = 200 \/ answer2 = 200)
                                          /\ ~statRaises /\ ~writeRaises /\ ~readRaises
                                       THEN Batches(RowsFlow) ELSE {<< >>} :
                            \E f \in IF Len(rows) > 0 THEN DbFailures ELSE {"none"} :
                              DownloadAndProcessReportTask(login1, answer1, login2, answer2,
                                                           statRaises, writeRaises,
                                                           rows, f, readRaises)

SpecFlow == Init /\ [][NextFlow]_vars

\* calls of the cell parsers: _parse_date and parse_polars_date on the four
\* renderings of the dates of a leap year and of a common year,
\* _parse_condition on condition texts, and _parse_integer and
\* _parse_decimal on number cells: null, "", "-", text, the native numbers
\* 0, 0.5, 12.5, 30 and -3, and strings such as "720 horas", "1,234 km",
\* "12.5", "0" and "15 ppm"
InitParse ==
    /\ InitIngest /\ InitClient /\ InitFlow /\ InitRace
    /\ parsing \in
          {[NoParse EXCEPT !.fn = "_parse_date", !.y = y, !.m = m, !.d = d,
                           !.format = date_formats[f]] :
              y \in {2024, 2025}, m \in 1..12, d \in 1..31,
              f \in 1..Len(date_formats)}
          \cup
          {[NoParse EXCEPT !.fn = "_parse_condition", !.value = v] :
              v \in {None, "", "Normal", "NORMAL", "Caution", "Precaution",
                     "PRECAUCION", "Precaución", "PRECAUCIÓN", "precaución",
                     "Critical", "CRITICO", "Crítico", "crítico", "alerta",
                     " Alerta ", "Severe", "Bueno"}}
          \cup
          {[NoParse EXCEPT !.fn = "_parse_integer, _parse_decimal", !.cell = c] :
              c \in {NNone, NCell("empty", 0, "", FALSE), NCell("dash", 0, "", FALSE),
                     NCell("text", 0, "", FALSE)}
                    \cup {NCell("num", n, "", FALSE) : n \in {0, 5, 125, 300, -30}}
                    \cup {NCell("str", n, unit, comma) :
                            n \in {0, 125, 150, 7200, 12340},
                            unit \in {"", "horas", "Horas", "HORAS", "km", "Km",
                                      "KM", "ppm"},
                            comma \in BOOLEAN}}
    /\ parsing.fn = "_parse_date" => parsing.d <= DaysIn(parsing.y, parsing.m)

NextParse ==
    \/ ParseDateCall
    \/ ParseConditionCall
    \/ ParseNumberCall

SpecParse == InitParse /\ [][NextParse]_vars

(***************************************************************************)
(* Properties.                                                             *)
(***************************************************************************)
StoredLabNumbers(reportSet) == {r.lab_number : r \in reportSet}

BulkErrors(res) ==
    {i \in 1..Len(res.errors) : res.errors[i].field = "bulk_create"}

\* C1: after any sequence of ingestion runs, also when one batch carries the
\* same not yet stored lab_number on two rows, no two stored Reports have
\* the same lab_number.
C1_UniqueLabNumber ==
    \A r1, r2 \in reports : r1.lab_number = r2.lab_number => r1 = r2

\* a run whose batch named one new lab_number on both of its rows
C1_Witness ==
    /\ op = "process_file"
    /\ Len(df) = 2
    /\ df[1].lab = df[2].lab
    /\ results.skipped = 0
    /\ bulkRaised = "reports"
    /\ df[1].lab \notin StoredLabNumbers(reports)

\* C2: when a bulk insert raises inside process_dataframe, the Report and
\* LabAnalysis tables are as before the run, results["created"] is 0 and
\* results["errors"] holds exactly one entry with field "bulk_create".
C2_AtomicBatch ==
    [][bulkRaised' # "none" =>
         /\ reports' = reports
         /\ analyses' = analyses
         /\ results'.created = 0
         /\ Cardinality(BulkErrors(results')) = 1]_vars

\* the LabAnalysis insert raised after the Reports of the batch were inserted
C2_Witness ==
    /\ op = "process_file"
    /\ bulkRaised = "analyses"
    /\ Len(df) = 2
    /\ df[1].lab # df[2].lab
    /\ BulkErrors(results) = {1}

\* C3: a run that reports created = n > 0 added exactly n Reports and n
\* LabAnalysis records, every new Report has exactly one LabAnalysis, and it
\* carries the analysis payload of the source row of that Report.
C3_PairedAnalyses ==
    [][results'.created > 0 =>
         LET newReports == reports' \ reports
             newAnalyses == analyses' \ analyses
         IN  /\ Cardinality(newReports) = results'.created
             /\ Cardinality(newAnalyses) = results'.created
             /\ \A r \in newReports :
                   /\ Cardinality({a \in analyses' : a.report = r.id}) = 1
                   /\ \A a \in analyses' : a.report = r.id => a \in newAnalyses
                   /\ \E i \in 1..Len(passed') : passed'[i].lab = r.lab_number
                   /\ \A i \in 1..Len(passed') :
                         passed'[i].lab = r.lab_number =>
                           \A a \in analyses' : a.report = r.id =>
                             /\ a.visual_appearance = passed'[i].visual
                             /\ a.tbn = parse_decimal(passed'[i].tbn)
                             /\ a.iron_fe = parse_integer(passed'[i].iron)]_vars

\* a run created two Reports from rows with different analysis payloads
C3_Witness ==
    /\ op = "process_file"
    /\ results.created = 2
    /\ Len(passed) = 2
    /\ passed[1].visual # passed[2].visual

\* the rows of a batch a filter kept must have: dated after every dated
\* stored Report
AfterAllStored(row, reportSet) ==
    \/ \A r \in reportSet : r.sample_date = NoDate
    \/ /\ parse_polars_date(row.sdate) # NoDate
       /\ \A r \in reportSet :
             r.sample_date # NoDate => parse_polars_date(row.sdate) > r.sample_date

\* C4: process_report_task hands on exactly the rows dated strictly after
\* the latest stored sample_date, and every row when no stored Report has a
\* sample_date.
C4_WatermarkFilter ==
    [][op' = "process_report_task" =>
         LET Keep(row) == AfterAllStored(row, reports)
         IN  passed' = SelectSeq(df', Keep)]_vars

\* with 2025-11-30 stored, a batch dated 29/11/2025 and 2025-12-01 keeps
\* only the later row
C4_Witness ==
    /\ op = "process_report_task"
    /\ \E r \in reports : r.lab_number = "L2" /\ r.sample_date = MkDate(2025, 11, 30)
    /\ Len(df) = 2
    /\ df[1].sdate = Date1129
    /\ df[2].sdate = Date1201
    /\ passed = << df[2] >>

\* C5: a run leaves every stored Report and LabAnalysis as it was, creates
\* no Report for a lab_number that was stored, and, unless a bulk insert
\* raised, persists every row of the batch whose lab_number is new.
C5_SkipNotUpdate ==
    [][/\ reports \subseteq reports'
       /\ analyses \subseteq analyses'
       /\ \A r \in reports' \ reports :
             r.lab_number \notin StoredLabNumbers(reports)
       /\ bulkRaised' = "none" =>
             \A i \in 1..Len(df') :
                df'[i].lab \notin StoredLabNumbers(reports) =>
                  \E r \in reports' \ reports : r.lab_number = df'[i].lab]_vars

\* a batch of a stored lab_number, with another payload, and a new one:
\* the first is skipped, the second created
C5_Witness ==
    /\ op = "process_file"
    /\ Len(df) = 2
    /\ results.skipped = 1
    /\ results.created = 1
    /\ \E r \in reports : \E a \in analyses :
          /\ r.lab_number = df[1].lab
          /\ a.report = r.id
          /\ a.visual_appearance # df[1].visual

\* the error entry a row of RowsResolve must add, << >> when it resolves
ExpectedResolutionError(row) ==
    IF << row.org, row.machine, row.serial, row.comp >> = EntNoOrganization
    THEN << [lab_number |-> row.lab, error |-> Msg("Organization not found", row.org),
             field |-> "entity_resolution"] >>
    ELSE IF << row.org, row.machine, row.serial, row.comp >> = EntNoMachine
    THEN << [lab_number |-> row.lab, error |-> Msg("Machine not found", row.machine),
             field |-> "entity_resolution"] >>
    ELSE IF << row.org, row.machine, row.serial, row.comp >> = EntNoComponent
    THEN << [lab_number |-> row.lab, error |-> Msg("Component not found", row.comp),
             field |-> "entity_resolution"] >>
    ELSE << >>

RECURSIVE ExpectedResolutionErrors(_)
ExpectedResolutionErrors(rows) ==
    IF rows = << >> THEN << >>
    ELSE ExpectedResolutionError(Head(rows)) \o ExpectedResolutionErrors(Tail(rows))

\* the entries of results["errors"] for rows, without their row numbers
RowErrors(res) ==
    LET IsRowError(e) == e.field # "bulk_create"
        rowErrors == SelectSeq(res.errors, IsRowError)
    IN  [i \in 1..Len(rowErrors) |->
            [lab_number |-> rowErrors[i].lab_number,
             error |-> rowErrors[i].error, field |-> rowErrors[i].field]]

\* C6: every row whose organization, machine or component does not exist
\* adds one error entry naming the missing entity and is not persisted; the
\* rows after it are still processed, and the rows that resolve are
\* persisted unless a bulk insert raised.
C6_RowLevelResolutionErrors ==
    [][LET Fresh(row) == row.lab \notin StoredLabNumbers(reports)
           fresh == SelectSeq(df', Fresh)
       IN  /\ RowErrors(results') = ExpectedResolutionErrors(fresh)
           /\ \A i \in 1..Len(fresh) :
                 IF ExpectedResolutionError(fresh[i]) # << >>
                 THEN fresh[i].lab \notin StoredLabNumbers(reports')
                 ELSE bulkRaised' = "none" =>
                        fresh[i].lab \in StoredLabNumbers(reports')]_vars

\* a row of an unknown organization, then a row that resolves and is created
C6_Witness ==
    /\ op = "process_file"
    /\ Len(df) = 2
    /\ df[1].org = "Ghost"
    /\ df[2].org = "ACME"
    /\ Len(results.errors) = 1
    /\ results.errors[1].error = Msg("Organization not found", "Ghost")
    /\ results.created = 1
    /\ df[2].lab \in StoredLabNumbers(reports)

C8_GetTokenCacheOrLogin ==
    [][(call'.op = "get_token" /\ now' = now /\ config' = config /\ task' = task) =>
        LET hit == /\ tokenEntry.set /\ now < tokenEntry.deadline
                   /\ expiryEntry.set /\ now < expiryEntry.deadline
                   /\ now < expiryEntry.val - 300
        IN  IF hit
            THEN /\ call'.logins = 0
                 /\ call'.error = "none"
                 /\ call'.token = tokenEntry.val
                 /\ UNCHANGED << tokenEntry, expiryEntry, issued >>
            ELSE /\ call'.logins = 1
                 /\ call'.error = "none" =>
                       /\ issued' = issued + 1
                       /\ call'.token = issued'
                       /\ tokenEntry' = [set |-> TRUE, val |-> call'.token,
                                         deadline |-> now + call'.expires_in]
                       /\ expiryEntry' = [set |-> TRUE,
                                          val |-> now + call'.expires_in,
                                          deadline |-> now + call'.expires_in]]_vars

\* get_token answered from the cache some time after the login
C8_Witness ==
    /\ call.op = "get_token"
    /\ call.logins = 0
    /\ call.token = tokenEntry.val
    /\ now >= 300
    /\ now < expiryEntry.val - 300

\* C9: when the download step of download_intertek_report_task fails
\* because of an authentication failure or a request failure, the task
\* schedules a retry (at most 3, 300 seconds apart) instead of returning an
\* error result.
C9_RetryOnAuthOrRequestFailure ==
    task.cause \in {"AuthenticationError", "APIRequestError"} =>
        /\ task.outcome \in {"retry", "raised"}
        /\ task.retries <= 3

\* C10: when the integration is disabled or the username or password is
\* missing, get_intertek_client raises ETLException before a client exists,
\* and download_intertek_report_task returns an error result without a login,
\* without a request and without scheduling a retry.
C10_ConfigurationErrorNoRetry ==
    (/\ task.outcome # "none"
     /\ \/ ~task.config.enabled
        \/ task.config.username = ""
        \/ task.config.password = "") =>
        /\ task.outcome = "error"
        /\ task.error = "ETLException"
        /\ ~task.client
        /\ task.logins = 0
        /\ task.requests = 0
        /\ task.state = "idle"
        /\ task.retries = 0

\* the task ran with the integration enabled and the password missing
C10_Witness ==
    /\ task.outcome = "error"
    /\ task.config.enabled
    /\ task.config.username # ""
    /\ task.config.password = ""

\* C11: when a run of download_and_process_report_task has ended, the
\* temporary file the download step created no longer exists, whichever way
\* the run ended: processing succeeded, returned an error, raised, or the
\* download failed after the file was created.
C11_TempFileRemoved == op = "download_and_process_report_task" => tempFile # "exists"

\* C12: a run of download_and_process_report_task returns a result and never
\* raises, and the status of that result is "error" exactly when the
\* configuration was wrong (get_intertek_client raised) or the bulk insert
\* failed; row errors alone leave it "success".
C12_TopLevelStatus == op = "download_and_process_report_task" => (flow.outcome = "returned" /\ (flow.status = "error" <=> ((task.error = "ETLException" /\ ~task.client) \/ bulkRaised # "none")))

\* C13: a run of process_report_task on the same file as the run before it,
\* whose bulk insert did not fail, stores no further Report or LabAnalysis,
\* and it does so without reaching the bulk insert: the incremental filter
\* and the duplicate filter leave no row to create, and nothing is inserted
\* a second time.
C13_RerunCreatesNothing == [][(op = "process_report_task" /\ bulkRaised = "none" /\ df' = df /\ runs' = runs + 1) => (reports' = reports /\ analyses' = analyses /\ results'.created = 0 /\ bulkRaised' = "none")]_vars

\* a second run on a file of two rows, one of them undated, both stored by
\* the first run
C13_Witness == runs = 2 /\ Len(df) = 2 /\ {df[i].lab : i \in 1..Len(df)} = {"L3", "L4"} /\ StoredLabNumbers(reports) = {"L3", "L4"} /\ Cardinality(analyses) = 2 /\ results.created = 0

\* C14 as stated: in every stored Report exactly one of machine_hours and
\* machine_kms is non-zero, exactly one of lubricant_hours and lubricant_kms
\* is non-zero, and the non-zero side is kilometers when the machine name
\* contains TRANSPORTES (in any case), hours otherwise.
C14_ExactlyOneNonZero == \A r \in reports : LET t == ContainsTransportes((CHOOSE m \in machines : m.id = r.machine).name) IN IF t THEN (r.machine_hours = 0 /\ r.machine_kms # 0 /\ r.lubricant_hours = 0 /\ r.lubricant_kms # 0) ELSE (r.machine_hours # 0 /\ r.machine_kms = 0 /\ r.lubricant_hours # 0 /\ r.lubricant_kms = 0)

\* C14: in every stored Report the side the machine name does not select is
\* zero in both usage pairs: hours when the machine name contains
\* TRANSPORTES (in any case), kilometers otherwise.  The selected side of a
\* Report the last run created holds the integer parsed from the row's cell,
\* which is zero when the cell is empty: at most one side is non-zero.
C14_UnselectedSideZero == /\ \A r \in reports : LET t == ContainsTransportes((CHOOSE m \in machines : m.id = r.machine).name) IN IF t THEN (r.machine_hours = 0 /\ r.lubricant_hours = 0) ELSE (r.machine_kms = 0 /\ r.lubricant_kms = 0)
                          /\ \A r \in reports : \A i \in 1..Len(df) : (r.id >= nextReportId - results.created /\ r.lab_number = df[i].lab) => (r.machine_hours + r.machine_kms = parse_integer(df[i].mhk) /\ r.lubricant_hours + r.lubricant_kms = parse_integer(df[i].lhk))

\* stored: a Report counted in kilometers (7200 and 1200), one counted in
\* hours, and one whose usage cells were empty
C14_Witness == /\ \E r \in reports : r.machine_hours = 0 /\ r.machine_kms = 7200 /\ r.lubricant_hours = 0 /\ r.lubricant_kms = 1200
               /\ \E r \in reports : r.machine_hours = 7200 /\ r.machine_kms = 0 /\ r.lubricant_hours = 7200 /\ r.lubricant_kms = 0
               /\ \E r \in reports : r.machine_hours = 0 /\ r.machine_kms = 0 /\ r.lubricant_hours = 0 /\ r.lubricant_kms = 0

\* C15: on a first upload, a row whose machine lookup matches more than one
\* machine gets an error entry that differs from the entry the same row
\* would get if no machine matched; a row whose machine is ambiguous or
\* missing is not stored, and the rows that resolve are stored all the same
\* unless a bulk insert raised.
C15_AmbiguousMachineDistinct ==
    (op = "process_file" /\ runs = 1) =>
      \A i \in 1..Len(df) :
        LET o == OrganizationGet(organizations, df[i].org)
            g == MachineGet(machines, o.id, df[i].machine, df[i].serial)
            notFound == resolve_machine_cached(EmptyDict, {}, df[i].machine,
                                               df[i].serial, o.id).msg
        IN  IF df[i].lab = None \/ o.st # "ok" THEN TRUE
            ELSE IF g.st # "ok"
            THEN /\ df[i].lab \notin StoredLabNumbers(reports)
                 /\ \E k \in 1..Len(results.errors) :
                       /\ results.errors[k].row_number = i + 2
                       /\ g.st = "MultipleObjectsReturned" =>
                             results.errors[k].error # notFound
            ELSE (bulkRaised = "none"
                  /\ ComponentGet(components, g.id, df[i].comp).st = "ok") =>
                     df[i].lab \in StoredLabNumbers(reports)

\* C16: within one run no lookup key is queried twice, whatever the lookup
\* gave: an organization name, a machine name with serial and organization,
\* and a component name with machine each reach objects.get at most once.
C16_OneLookupPerKey == \A i \in 1..Len(lookups) : \A j \in 1..Len(lookups) : lookups[i] = lookups[j] => i = j

\* C17: after an upload, every row of the sheet without lab number has its
\* own "Lab Number is required" error entry, also when other rows of the
\* sheet carry lab numbers that are stored already, and no Report without
\* lab number is stored.
C17_MissingLabNumberReported ==
    op = "process_file" =>
      /\ Cardinality({k \in 1..Len(results.errors) :
                         /\ results.errors[k].field = "lab_number"
                         /\ results.errors[k].error = Msg("Lab Number is required", "")})
           = Cardinality({i \in 1..Len(df) : Falsy(df[i].lab)})
      /\ \A r \in reports : ~Falsy(r.lab_number)

\* C18: after a run of process_report_task, every row of the file whose
\* sample date cell is empty or does not parse was handed on to
\* process_dataframe, and _parse_date does not raise on its cell: the row is
\* not dropped for its date, whether or not dated Reports are stored.
C18_UndatedRowContinues ==
    op = "process_report_task" =>
      \A i \in 1..Len(df) :
        parse_polars_date(df[i].sdate) = NoDate =>
          /\ ~ParseDateRaises(df[i].sdate)
          /\ \E j \in 1..Len(passed) : passed[j] = df[i]

\* C19 as stated: each of the four renderings of a calendar date parses, in
\* _parse_date and in parse_polars_date, to that date.
C19_AllRenderingsRoundTrip == (parsing.fn = "_parse_date" /\ parsing.done) => (parsing.date = MkDate(parsing.y, parsing.m, parsing.d) /\ parsing.polars_date = MkDate(parsing.y, parsing.m, parsing.d))

\* C19: the renderings DD/MM/YYYY, DD-MM-YYYY and YYYY-MM-DD of a calendar
\* date parse, in _parse_date and in parse_polars_date, to that date.  The
\* rendering MM/DD/YYYY parses to that date when its day is above 12 or
\* equals its month, and to the date with day and month exchanged
\* otherwise, since DD/MM/YYYY is tried first.
C19_RenderingsParse ==
    (parsing.fn = "_parse_date" /\ parsing.done) =>
      LET exchanged == /\ parsing.format = "%m/%d/%Y"
                       /\ parsing.d <= 12
                       /\ parsing.d # parsing.m
          expected == IF exchanged
                      THEN MkDate(parsing.y, parsing.d, parsing.m)
                      ELSE MkDate(parsing.y, parsing.m, parsing.d)
      IN  parsing.date = expected /\ parsing.polars_date = expected

\* 3 April 2024 written 04/03/2024 was parsed as 4 March 2024
C19_Witness == parsing.fn = "_parse_date" /\ parsing.done /\ parsing.format = "%m/%d/%Y" /\ parsing.y = 2024 /\ parsing.m = 4 /\ parsing.d = 3 /\ parsing.date = 20240304 /\ parsing.polars_date = 20240304

\* C20: _parse_condition gives CAUTION for "Precaución" and the other
\* caution words in any case, CRITICAL for "CRITICO", "crítico", "alerta"
\* and "critical" in any case, NORMAL for an empty or unknown text, and
\* never anything but NORMAL, CAUTION or CRITICAL.
C20_ConditionMapping ==
    (parsing.fn = "_parse_condition" /\ parsing.done) =>
      /\ parsing.condition \in {"NORMAL", "CAUTION", "CRITICAL"}
      /\ parsing.value \in {"Caution", "Precaution", "PRECAUCION", "Precaución",
                            "PRECAUCIÓN", "precaución"}
            => parsing.condition = "CAUTION"
      /\ parsing.value \in {"Critical", "CRITICO", "Crítico", "crítico", "alerta",
                            " Alerta "}
            => parsing.condition = "CRITICAL"
      /\ parsing.value \in {None, "", "Normal", "NORMAL", "Severe", "Bueno"}
            => parsing.condition = "NORMAL"

\* C21: _parse_integer gives 0 for a null, empty or "-" cell and otherwise
\* the integer left once horas or km (in any case) and thousands commas are
\* removed; _parse_decimal gives None for a null, empty or "-" cell and
\* otherwise the number the cell holds, for every number, zero included.
C21_NumberParsers ==
    (parsing.fn = "_parse_integer, _parse_decimal" /\ parsing.done) =>
      /\ parsing.cell.k \in {"none", "empty", "dash"} =>
            parsing.integer = 0 /\ parsing.decimal = NoNum
      /\ parsing.cell.k = "num" =>
            parsing.integer = IntOf(parsing.cell.n) /\ parsing.decimal = parsing.cell.n
      /\ (parsing.cell.k = "str" /\ parsing.cell.unit # "ppm") =>
            parsing.integer = IntOf(parsing.cell.n)
      /\ (parsing.cell.k = "str" /\ parsing.cell.unit = "") =>
            parsing.decimal = parsing.cell.n

\* C22: a title or header row (a marker in its first cell, or in at least
\* two of its cells) and a fully empty row get no error entry, and the
\* results count them: what results["skipped"] holds beyond the stored lab
\* numbers is the number of these rows.
C22_HeaderRowsSkippedAndCounted ==
    [][(runs' > runs /\ called') =>
         LET Marked(cell) == cell # None /\ ContainsTitlePattern(cell)
             Markers(row) ==
                 Cardinality({c \in {"c0", "lab", "org", "machine"} : Marked(row[c])})
             Skip(row) == \/ ~AnyNotNull(row)
                          \/ Marked(row.c0)
                          \/ Markers(row) >= 2
             skipRows == {i \in 1..Len(passed') : Skip(passed'[i])}
             stored == {r.lab_number : r \in reports}
             duplicates == {passed'[i].lab : i \in 1..Len(passed')} \cap stored
         IN  /\ \A i \in skipRows :
                   \A j \in 1..Len(results'.errors) :
                       \/ results'.errors[j].lab_number = None
                       \/ results'.errors[j].lab_number # passed'[i].lab
             /\ results'.skipped = Cardinality(duplicates) + Cardinality(skipRows)
      ]_vars

\* C23: the duplicate check does not exclude the race of two overlapping
\* runs.  A run that is done attempted the insert of every row its own check
\* kept: it created all of them or its bulk insert raised; the rows are not
\* looked up again when they are inserted.
C23_CheckedRowsAreInserted ==
    \A r \in 1..2 :
        overlap[r].pc = "done" =>
            \/ overlap[r].results.created = Len(overlap[r].fresh)
            \/ /\ overlap[r].results.created = 0
               /\ \E j \in 1..Len(overlap[r].results.errors) :
                      overlap[r].results.errors[j].field = "bulk_create"

\* both runs passed the duplicate check with the same new lab number and
\* both attempted its insert: one created it, the other's insert raised
C23_Witness ==
    \E a \in 1..2 : \E b \in 1..2 : \E lab \in {"L1", "L2"} :
        /\ a # b
        /\ overlap[a].pc = "done" /\ overlap[b].pc = "done"
        /\ lab \notin overlap[a].existing \cup overlap[b].existing
        /\ \E i \in 1..Len(overlap[a].fresh) : overlap[a].fresh[i].lab = lab
        /\ \E i \in 1..Len(overlap[b].fresh) : overlap[b].fresh[i].lab = lab
        /\ overlap[a].results.created = Len(overlap[a].fresh)
        /\ \E r \in reports : r.lab_number = lab
        /\ overlap[b].results.created = 0
        /\ \E j \in 1..Len(overlap[b].results.errors) :
               overlap[b].results.errors[j].field = "bulk_create"

C25_ReturnedTokenIsFresh ==
    \A c \in 1..2 :
        clients[c].pc = "returned" =>
            clients[c].at < ownExpiry[clients[c].token] - TOKEN_EXPIRY_BUFFER

\* C26: when the first attempt of _make_authenticated_request is answered
\* with an HTTP status other than 401 or raises a network error, the call
\* ends with APIRequestError after that one request, without invalidation
\* and without a second login, and the cache entries are those get_token
\* left before the request: untouched when the token came from the cache.
C26_FailedRequestLeavesCache ==
    [][(/\ call'.op = "request" /\ now' = now /\ config' = config
        /\ task' = task
        /\ Len(call'.answers) >= 1
        /\ call'.answers[1] \in {500, 0}) =>
         /\ call'.error = "APIRequestError"
         /\ Len(call'.sent) = 1
         /\ call'.invalidations = 0
         /\ call'.relogins = 0
         /\ \E login1 \in Login1Answers([token |-> tokenEntry,
                                          expiry |-> expiryEntry], now) :
               /\ get_token(Client, login1, now).error = "none"
               /\ call'.sent[1] = get_token(Client, login1, now).token
               /\ tokenEntry' = get_token(Client, login1, now).cs.cache.token
               /\ expiryEntry' = get_token(Client, login1, now).cs.cache.expiry
               /\ issued' = get_token(Client, login1, now).cs.issued
         /\ call'.logins = 0 => (tokenEntry' = tokenEntry /\ expiryEntry' = expiryEntry)
      ]_vars

\* a request sent with the cached token was answered 500: the call failed
\* with APIRequestError and the token is still cached
C26_Witness ==
    /\ call.op = "request"
    /\ call.answers = << 500 >>
    /\ call.error = "APIRequestError"
    /\ call.logins = 0
    /\ CacheGet(tokenEntry, now) = call.sent[1]
    /\ CacheGet(expiryEntry, now) # Missing

\* C27: a login that fails (a body with a message, a body without token, a
\* request that raised) ends get_token with AuthenticationError and leaves
\* the two cache entries exactly as they were before the attempt.
C27_FailedLoginCachesNothing ==
    [][(/\ call'.op = "get_token" /\ now' = now /\ config' = config
        /\ task' = task
        /\ call'.logins = 1
        /\ call'.token = Missing) =>
         /\ call'.error = "AuthenticationError"
         /\ UNCHANGED << tokenEntry, expiryEntry, issued >>
      ]_vars

\* C28: results["skipped"] is the number of incoming rows the duplicate
\* filter discarded, also when several incoming rows carry the same stored
\* lab_number.
C28_SkippedCountsDiscardedRows ==
    [][(runs' > runs /\ called') =>
         LET data == filter_header_rows(SelectSeq(passed', AnyNotNull))
             existing == get_existing_lab_numbers(reports, extract_lab_numbers(data))
         IN  results'.skipped = Len(data) - Len(FilterDuplicates(data, existing))
      ]_vars

\* C29: the row_number of a row-level error entry is the position of the row
\* in the spreadsheet, where the title is row 1, the header row 2 and the
\* first data row is row 3: the row of the sheet at that position is the row
\* the entry is about, whatever rows the filters removed before it.
C29_RowNumberIsSheetPosition ==
    [][(runs' > runs /\ called') =>
         \A j \in 1..Len(results'.errors) :
            LET e == results'.errors[j]
            IN  e.field # "bulk_create" =>
                  /\ e.row_number - 2 \in 1..Len(df')
                  /\ df'[e.row_number - 2].lab = e.lab_number
      ]_vars

\* C30: in what a run stores for a row, every chemistry measurement whose
\* cell is null, empty or "-" is absent (None), and each of the four usage
\* fields of the report is a number, zero when its cell is empty.
C30_AbsentMeasurementsAreNull ==
    [][(runs' > runs /\ called' /\ bulkRaised' = "none") =>
         \A r \in reports' \ reports :
            \A i \in 1..Len(df') :
               df'[i].lab = r.lab_number =>
                  LET row == df'[i]
                      Blank(cell) == cell.k \in {"none", "empty", "dash"}
                  IN  /\ \E a \in analyses' :
                            /\ a.report = r.id
                            /\ Blank(row.tbn) => a.tbn = NoNum
                            /\ Blank(row.iron) => a.iron_fe = NoNum
                      /\ {r.machine_hours, r.machine_kms, r.lubricant_hours,
                           r.lubricant_kms} \subseteq Nat
                      /\ Blank(row.mhk) => (r.machine_hours = 0 /\ r.machine_kms = 0)
                      /\ Blank(row.lhk) => (r.lubricant_hours = 0 /\ r.lubricant_kms = 0)
      ]_vars

====
